---------------------------- MODULE Spec2Model ----------------------------
(***************************************************************************)
(* Model of gsheets/sheets_tools.py: the A1-notation / grid-range          *)
(* conversion helpers, the value-shape normalizer, and the tool adapters   *)
(* that call the remote spreadsheet service.                               *)
(*                                                                         *)
(* Python strings are sequences of one-character strings:                  *)
(*   "A1:C3"  is  <<"A","1",":","C","3">>.                                 *)
(* Python dicts are functions whose DOMAIN is the set of keys present.     *)
(* Python values of dynamic type are tagged records [t, v]:                *)
(*   None -> [t |-> "none"], scalar x -> [t |-> "scalar", v |-> x],        *)
(*   list -> [t |-> "list", v |-> <<elements>>].                           *)
(***************************************************************************)
EXTENDS Integers, Sequences, FiniteSets, TLC

VARIABLES
    fn,       \* pure helper that has been applied ("none" before the call)
    arg,      \* its argument(s)
    ret,      \* what it returned (or the error it raised)
    doc,      \* the remote spreadsheet, as spreadsheets().get returns it
    applied,  \* the mutating remote calls that took effect, in order
    pc,       \* position of the tool invocation: "idle", "<tool>:<label>", "done"
    inv,      \* the invoked tool and its arguments
    local,    \* the handler's local variables kept across an await
    calls,    \* the remote calls the invocation issued, in order, with outcome
    outcome   \* how the invocation ended: a result string or an error

pureVars == << fn, arg, ret >>
toolVars == << doc, applied, pc, inv, local, calls, outcome >>
vars     == << fn, arg, ret, doc, applied, pc, inv, local, calls, outcome >>

-----------------------------------------------------------------------------
(* Characters *)

Alphabet ==
    << "A", "B", "C", "D", "E", "F", "G", "H", "I", "J", "K", "L", "M",
       "N", "O", "P", "Q", "R", "S", "T", "U", "V", "W", "X", "Y", "Z" >>

Digits == << "0", "1", "2", "3", "4", "5", "6", "7", "8", "9" >>

\* regex class [A-Z]
IsUpper(c) == \E i \in 1..Len(Alphabet) : Alphabet[i] = c

\* regex class \d (ASCII digits)
IsDigit(c) == \E i \in 1..Len(Digits) : Digits[i] = c

\* ord(char) - ord("A") + 1, for an uppercase letter
LetterOrd(c) == CHOOSE i \in 1..Len(Alphabet) : Alphabet[i] = c

\* chr(k + ord("A")), for 0 <= k <= 25
LetterChr(k) == Alphabet[k + 1]

DigitVal(c) == (CHOOSE i \in 1..Len(Digits) : Digits[i] = c) - 1

\* int(s) for a non-empty string of decimal digits (leading zeros allowed)
RECURSIVE ParseInt(_)
ParseInt(s) ==
    IF Len(s) = 0 THEN 0
    ELSE ParseInt(SubSeq(s, 1, Len(s) - 1)) * 10 + DigitVal(s[Len(s)])

\* str(n) as an f-string renders an int
RECURSIVE NatToStr(_)
NatToStr(n) ==
    IF n < 10 THEN << Digits[n + 1] >>
    ELSE NatToStr(n \div 10) \o << Digits[(n % 10) + 1] >>

IntToStr(n) == IF n < 0 THEN << "-" >> \o NatToStr(-n) ELSE NatToStr(n)

-----------------------------------------------------------------------------
(* Column codec *)

\* _column_letter_to_index: index = index * 26 + (ord(char) - ord("A") + 1)
\* over the characters left to right, then index - 1.
RECURSIVE LetterLoop(_, _)
LetterLoop(letter, index) ==
    IF Len(letter) = 0 THEN index
    ELSE LetterLoop(Tail(letter), index * 26 + LetterOrd(Head(letter)))

column_letter_to_index_noMinus(letter) == LetterLoop(letter, 0)

column_letter_to_index(letter) == LetterLoop(letter, 0) - 1

\* _column_index_to_letter: index += 1; while index > 0: index -= 1;
\* letter = chr(index % 26 + ord("A")) + letter; index //= 26
RECURSIVE IndexLoop(_, _)
IndexLoop(index, letter) ==
    IF index > 0
    THEN IndexLoop((index - 1) \div 26,
                   << LetterChr((index - 1) % 26) >> \o letter)
    ELSE letter

column_index_to_letter(index) == IndexLoop(index + 1, << >>)

-----------------------------------------------------------------------------
(* Range parser *)

None == [t |-> "none"]

\* number of consecutive characters of class [A-Z] in s from position p on
RECURSIVE SpanUpper(_, _)
SpanUpper(s, p) ==
    IF p <= Len(s) /\ IsUpper(s[p]) THEN 1 + SpanUpper(s, p + 1) ELSE 0

\* number of consecutive characters of class \d in s from position p on
RECURSIVE SpanDigit(_, _)
SpanDigit(s, p) ==
    IF p <= Len(s) /\ IsDigit(s[p]) THEN 1 + SpanDigit(s, p + 1) ELSE 0

\* re.match(r"([A-Z]+)(\d+)(?::([A-Z]+)(\d+))?", s): anchored at the start,
\* not at the end.  Letters and digits are disjoint classes, so the greedy
\* match never backtracks into a different grouping.  g3/g4 are None when
\* the optional group did not take part in the match.
MatchA1(s) ==
    LET n1 == SpanUpper(s, 1)
        n2 == SpanDigit(s, n1 + 1)
        p  == n1 + n2 + 1
        n3 == IF p <= Len(s) /\ s[p] = ":" THEN SpanUpper(s, p + 1) ELSE 0
        n4 == IF n3 > 0 THEN SpanDigit(s, p + 1 + n3) ELSE 0
    IN  IF n1 = 0 \/ n2 = 0
        THEN [matched |-> FALSE]
        ELSE IF n3 > 0 /\ n4 > 0
        THEN [matched |-> TRUE, hasEnd |-> TRUE,
              g1 |-> SubSeq(s, 1, n1),
              g2 |-> SubSeq(s, n1 + 1, n1 + n2),
              g3 |-> SubSeq(s, p + 1, p + n3),
              g4 |-> SubSeq(s, p + n3 + 1, p + n3 + n4)]
        ELSE [matched |-> TRUE, hasEnd |-> FALSE,
              g1 |-> SubSeq(s, 1, n1),
              g2 |-> SubSeq(s, n1 + 1, n1 + n2)]

\* position of the first "!" in s, 0 if there is none
RECURSIVE FindBang(_, _)
FindBang(s, p) ==
    IF p > Len(s) THEN 0
    ELSE IF s[p] = "!" THEN p ELSE FindBang(s, p + 1)

\* the default sheet name "Sheet1" of _parse_range
DefaultSheet == << "S", "h", "e", "e", "t", "1" >>

\* _parse_range: split on the first "!", else ("Sheet1", range_str)
parse_range(range_str) ==
    LET b == FindBang(range_str, 1)
    IN  IF b > 0
        THEN << SubSeq(range_str, 1, b - 1),
                SubSeq(range_str, b + 1, Len(range_str)) >>
        ELSE << DefaultSheet, range_str >>

-----------------------------------------------------------------------------
(* Grid range converter *)

\* the empty dict {}
EmptyDict == [k \in {} |-> None]

\* dict.get(key, default)
Get(d, k, default) == IF k \in DOMAIN d THEN d[k] ELSE default

convert_a1_to_grid_range_inclusiveEnd(a1_notation, sheet_id) ==
    LET m == MatchA1(a1_notation)
    IN  IF ~m.matched THEN [sheetId |-> sheet_id]
        ELSE LET start_col == column_letter_to_index(m.g1)
                 start_row == ParseInt(m.g2) - 1
             IN  IF m.hasEnd
                 THEN [sheetId          |-> sheet_id,
                       startRowIndex    |-> start_row,
                       startColumnIndex |-> start_col,
                       endRowIndex      |-> ParseInt(m.g4),
                       endColumnIndex   |-> column_letter_to_index(m.g3)]
                 ELSE [sheetId          |-> sheet_id,
                       startRowIndex    |-> start_row,
                       startColumnIndex |-> start_col,
                       endRowIndex      |-> start_row + 1,
                       endColumnIndex   |-> start_col]

\* _convert_a1_to_grid_range
convert_a1_to_grid_range(a1_notation, sheet_id) ==
    LET m == MatchA1(a1_notation)
    IN  IF ~m.matched THEN [sheetId |-> sheet_id]
        ELSE LET start_col == column_letter_to_index(m.g1)
                 start_row == ParseInt(m.g2) - 1
             IN  IF m.hasEnd
                 THEN [sheetId          |-> sheet_id,
                       startRowIndex    |-> start_row,
                       startColumnIndex |-> start_col,
                       endRowIndex      |-> ParseInt(m.g4),
                       endColumnIndex   |-> column_letter_to_index(m.g3) + 1]
                 ELSE [sheetId          |-> sheet_id,
                       startRowIndex    |-> start_row,
                       startColumnIndex |-> start_col,
                       endRowIndex      |-> start_row + 1,
                       endColumnIndex   |-> start_col + 1]

grid_range_to_a1_exclusiveEnd(grid_range, sheet_name) ==
    LET start_col == column_index_to_letter(Get(grid_range, "startColumnIndex", 0))
        start_row == Get(grid_range, "startRowIndex", 0) + 1
    IN  IF "endColumnIndex" \in DOMAIN grid_range /\ "endRowIndex" \in DOMAIN grid_range
        THEN sheet_name \o << "!" >> \o start_col \o IntToStr(start_row)
               \o << ":" >> \o column_index_to_letter(grid_range["endColumnIndex"])
               \o IntToStr(grid_range["endRowIndex"])
        ELSE sheet_name \o << "!" >> \o start_col \o IntToStr(start_row)

\* _grid_range_to_a1
grid_range_to_a1(grid_range, sheet_name) ==
    LET start_col == column_index_to_letter(Get(grid_range, "startColumnIndex", 0))
        start_row == Get(grid_range, "startRowIndex", 0) + 1
    IN  IF "endColumnIndex" \in DOMAIN grid_range /\ "endRowIndex" \in DOMAIN grid_range
        THEN sheet_name \o << "!" >> \o start_col \o IntToStr(start_row)
               \o << ":" >> \o column_index_to_letter(grid_range["endColumnIndex"] - 1)
               \o IntToStr(grid_range["endRowIndex"])
        ELSE sheet_name \o << "!" >> \o start_col \o IntToStr(start_row)

-----------------------------------------------------------------------------
(* Value shape normalizer *)

Scalar(x) == [t |-> "scalar", v |-> x]
List(xs)  == [t |-> "list", v |-> xs]

\* isinstance(x, list)
IsList(x) == x.t = "list"

\* index (0-based) of the first element of xs that is not a list, -1 if none:
\* the for/enumerate loop of _validate_2d_array
RECURSIVE FirstNonList(_, _)
FirstNonList(xs, i) ==
    IF i > Len(xs) THEN -1
    ELSE IF ~IsList(xs[i]) THEN i - 1 ELSE FirstNonList(xs, i + 1)

\* raise <kind>(<msg>); row is the row index the message names, -1 if none
Raise(kind, msg, row) == [ok |-> FALSE, error |-> kind, msg |-> msg, row |-> row]
Return(x) == [ok |-> TRUE, value |-> x]

validate_2d_array_scalarAsRow(values) ==
    IF values.t = "none" THEN Raise("ValueError", "Values cannot be None", -1)
    ELSE IF ~IsList(values) THEN Return(List(<< values >>))
    ELSE IF Len(values.v) = 0
    THEN Raise("ValueError", "Values cannot be an empty list", -1)
    ELSE IF IsList(values.v[1])
    THEN LET bad == FirstNonList(values.v, 1)
         IN  IF bad >= 0
             THEN Raise("ValueError", "Row is not a list", bad)
             ELSE Return(values)
    ELSE Return(List(<< values >>))

validate_2d_array_firstRowOnly(values) ==
    IF values.t = "none" THEN Raise("ValueError", "Values cannot be None", -1)
    ELSE IF ~IsList(values) THEN Return(List(<< List(<< values >>) >>))
    ELSE IF Len(values.v) = 0
    THEN Raise("ValueError", "Values cannot be an empty list", -1)
    ELSE IF IsList(values.v[1]) THEN Return(values)
    ELSE Return(List(<< values >>))

\* _validate_2d_array
validate_2d_array(values) ==
    IF values.t = "none" THEN Raise("ValueError", "Values cannot be None", -1)
    ELSE IF ~IsList(values) THEN Return(List(<< List(<< values >>) >>))
    ELSE IF Len(values.v) = 0
    THEN Raise("ValueError", "Values cannot be an empty list", -1)
    ELSE IF IsList(values.v[1])
    THEN LET bad == FirstNonList(values.v, 1)
         IN  IF bad >= 0
             THEN Raise("ValueError", "Row is not a list", bad)
             ELSE Return(values)
    ELSE Return(List(<< values >>))

-----------------------------------------------------------------------------
(* Flexible booleans *)

LowerAlphabet ==
    << "a", "b", "c", "d", "e", "f", "g", "h", "i", "j", "k", "l", "m",
       "n", "o", "p", "q", "r", "s", "t", "u", "v", "w", "x", "y", "z" >>

\* str.lower(), character by character
LowerChar(c) == IF IsUpper(c) THEN LowerAlphabet[LetterOrd(c)] ELSE c
Lower(s) == [i \in 1..Len(s) |-> LowerChar(s[i])]

\* str.lstrip() / str.rstrip() / str.strip() for the whitespace " "
RECURSIVE LStrip(_)
LStrip(s) == IF Len(s) > 0 /\ Head(s) = " " THEN LStrip(Tail(s)) ELSE s
RECURSIVE RStrip(_)
RStrip(s) ==
    IF Len(s) > 0 /\ s[Len(s)] = " " THEN RStrip(SubSeq(s, 1, Len(s) - 1)) ELSE s
Strip(s) == RStrip(LStrip(s))

\* Python values given for a flag: None, bool, int, str
PNone == None
PBool(b) == [t |-> "bool", v |-> b]
PInt(n) == [t |-> "int", v |-> n]
PStr(x) == [t |-> "str", v |-> x]

\* int(value) for a str: surrounding whitespace, an optional sign, decimal
\* digits; ValueError otherwise
py_int(value) ==
    LET body   == Strip(value)
        signed == Len(body) > 0 /\ Head(body) \in { "+", "-" }
        digits == IF signed THEN Tail(body) ELSE body
    IN  IF Len(digits) > 0 /\ \A i \in 1..Len(digits) : IsDigit(digits[i])
        THEN Return(IF signed /\ Head(body) = "-" THEN -ParseInt(digits)
                    ELSE ParseInt(digits))
        ELSE Raise("ValueError", "invalid literal for int()", -1)

TrueWords  == { << "t", "r", "u", "e" >>, << "1" >>, << "y", "e", "s" >>, << "o", "n" >> }
FalseWords == { << "f", "a", "l", "s", "e" >>, << "0" >>, << "n", "o" >>, << "o", "f", "f" >> }

\* _parse_boolean
parse_boolean(value) ==
    CASE value.t = "none" -> None
      [] value.t = "bool" -> value
      [] value.t = "int"  -> PBool(value.v # 0)
      [] value.t = "str"  ->
            IF Strip(Lower(value.v)) \in TrueWords THEN PBool(TRUE)
            ELSE IF Strip(Lower(value.v)) \in FalseWords THEN PBool(FALSE)
            ELSE IF py_int(value.v).ok THEN PBool(py_int(value.v).value # 0)
            ELSE PBool(Len(value.v) > 0)

-----------------------------------------------------------------------------
(* Range analysis *)

\* the positions of ":" in s
Colons(s) == { i \in 1..Len(s) : s[i] = ":" }

\* re.match(r"([A-Z]+)(\d+)", s): anchored at the start only
MatchCell(s) ==
    LET n1 == SpanUpper(s, 1)
        n2 == SpanDigit(s, n1 + 1)
    IN  IF n1 = 0 \/ n2 = 0 THEN [matched |-> FALSE]
        ELSE [matched |-> TRUE,
              g1 |-> SubSeq(s, 1, n1),
              g2 |-> SubSeq(s, n1 + 1, n1 + n2)]

\* _analyze_range: a dict, or None
analyze_range(range_str) ==
    IF Len(range_str) = 0 THEN None
    ELSE LET b          == FindBang(range_str, 1)
             sheet      == IF b > 0 THEN PStr(SubSeq(range_str, 1, b - 1)) ELSE PNone
             cell_range == IF b > 0 THEN SubSeq(range_str, b + 1, Len(range_str))
                           ELSE range_str
             c          == CHOOSE i \in Colons(cell_range) : TRUE
             start      == SubSeq(cell_range, 1, c - 1)
             end        == SubSeq(cell_range, c + 1, Len(cell_range))
         IN  IF Colons(cell_range) = {}
             THEN [sheet |-> sheet, has_bounds |-> FALSE, start |-> cell_range,
                   rows |-> 1, cols |-> 1]
             ELSE IF Cardinality(Colons(cell_range)) # 1 THEN None
             ELSE IF ~MatchCell(start).matched \/ ~MatchCell(end).matched
             THEN [sheet |-> sheet, has_bounds |-> TRUE, start |-> start, end |-> end]
             ELSE [sheet |-> sheet, has_bounds |-> TRUE, start |-> start, end |-> end,
                   rows |-> ParseInt(MatchCell(end).g2) - ParseInt(MatchCell(start).g2) + 1,
                   cols |-> column_letter_to_index(MatchCell(end).g1)
                              - column_letter_to_index(MatchCell(start).g1) + 1,
                   start_row |-> ParseInt(MatchCell(start).g2),
                   start_col |-> column_letter_to_index(MatchCell(start).g1),
                   end_row   |-> ParseInt(MatchCell(end).g2),
                   end_col   |-> column_letter_to_index(MatchCell(end).g1)]

-----------------------------------------------------------------------------
(* Color codec *)

HexDigits ==
    << "0", "1", "2", "3", "4", "5", "6", "7", "8", "9",
       "a", "b", "c", "d", "e", "f" >>

IsHexDigit(c) == \E i \in 1..Len(HexDigits) : HexDigits[i] = LowerChar(c)
HexVal(c) == (CHOOSE i \in 1..Len(HexDigits) : HexDigits[i] = LowerChar(c)) - 1

\* int(s, 16) for a string of hexadecimal digits, ValueError otherwise
RECURSIVE HexLoop(_, _)
HexLoop(s, acc) ==
    IF Len(s) = 0 THEN acc ELSE HexLoop(Tail(s), acc * 16 + HexVal(Head(s)))
py_int16(s) ==
    IF Len(s) > 0 /\ \A i \in 1..Len(s) : IsHexDigit(s[i])
    THEN Return(HexLoop(s, 0))
    ELSE Raise("ValueError", "invalid literal for int() with base 16", -1)

\* s[a:b], clipped to the string
Slice(s, a, b) ==
    LET hi == IF b < Len(s) THEN b ELSE Len(s)
    IN  IF a >= hi THEN << >> ELSE SubSeq(s, a + 1, hi)

\* hex_color.lstrip("#")
RECURSIVE LStripHash(_)
LStripHash(s) == IF Len(s) > 0 /\ Head(s) = "#" THEN LStripHash(Tail(s)) ELSE s

\* the float n / 255.0, kept as a fraction
Frac(n, d) == [num |-> n, den |-> d]

hex_to_rgb_dict_div256(hex_color) ==
    LET h == LStripHash(hex_color)
        r == py_int16(Slice(h, 0, 2))
        g == py_int16(Slice(h, 2, 4))
        b == py_int16(Slice(h, 4, 6))
    IN  IF ~r.ok THEN r ELSE IF ~g.ok THEN g ELSE IF ~b.ok THEN b
        ELSE Return([red   |-> Frac(r.value, 256),
                     green |-> Frac(g.value, 256),
                     blue  |-> Frac(b.value, 256)])

\* _hex_to_rgb_dict
hex_to_rgb_dict(hex_color) ==
    LET h == LStripHash(hex_color)
        r == py_int16(Slice(h, 0, 2))
        g == py_int16(Slice(h, 2, 4))
        b == py_int16(Slice(h, 4, 6))
    IN  IF ~r.ok THEN r ELSE IF ~g.ok THEN g ELSE IF ~b.ok THEN b
        ELSE Return([red   |-> Frac(r.value, 255),
                     green |-> Frac(g.value, 255),
                     blue  |-> Frac(b.value, 255)])

\* int(x * 255) for a non-negative fraction x; for x = n / 255.0 with n a
\* byte the float product is exactly n
Times255(x) == (x.num * 255) \div x.den

\* f"{n:02x}"
RECURSIVE NatToHex(_)
NatToHex(n) ==
    IF n < 16 THEN << HexDigits[n + 1] >>
    ELSE NatToHex(n \div 16) \o << HexDigits[(n % 16) + 1] >>
Hex02(n) == IF n < 16 THEN << "0" >> \o NatToHex(n) ELSE NatToHex(n)

\* _format_color
format_color(color_dict) ==
    IF DOMAIN color_dict = {} THEN << "D", "e", "f", "a", "u", "l", "t" >>
    ELSE << "#" >>
         \o Hex02(Times255(Get(color_dict, "red", Frac(0, 1))))
         \o Hex02(Times255(Get(color_dict, "green", Frac(0, 1))))
         \o Hex02(Times255(Get(color_dict, "blue", Frac(0, 1))))
         \o (IF "alpha" \in DOMAIN color_dict
             THEN << " ", "(", "a", "l", "p", "h", "a", ":", " " >>
                  \o NatToStr(Times255(color_dict.alpha)) \o << ")" >>
             ELSE << >>)

-----------------------------------------------------------------------------
(* Cell description *)

\* "not properties": no filter, or an empty one
NoFilter(properties) == properties.t = "none" \/ Len(properties.v) = 0

\* not properties or category in properties
Wanted_any(properties, category) == TRUE

Wanted(properties, category) ==
    \/ NoFilter(properties)
    \/ \E i \in 1..Len(properties.v) : properties.v[i] = category

\* the parts of the "Text:" line
text_desc(text_format) ==
    (IF "foregroundColor" \in DOMAIN text_format
     THEN << [color |-> format_color(text_format.foregroundColor)] >> ELSE << >>)
    \o (IF Get(text_format, "bold", FALSE) THEN << "bold" >> ELSE << >>)
    \o (IF Get(text_format, "italic", FALSE) THEN << "italic" >> ELSE << >>)
    \o (IF Get(text_format, "underline", FALSE) THEN << "underline" >> ELSE << >>)
    \o (IF Get(text_format, "strikethrough", FALSE) THEN << "strikethrough" >> ELSE << >>)
    \o (IF "fontSize" \in DOMAIN text_format
        THEN << [pt |-> text_format.fontSize] >> ELSE << >>)
    \o (IF "fontFamily" \in DOMAIN text_format
        THEN << [family |-> text_format.fontFamily] >> ELSE << >>)

Sides == << "top", "bottom", "left", "right" >>

\* the parts of the "Borders:" line: the sides with a style other than NONE
border_desc(borders) ==
    SelectSeq([i \in 1..Len(Sides) |->
                  [side  |-> Sides[i],
                   style |-> IF Sides[i] \in DOMAIN borders
                             THEN Get(borders[Sides[i]], "style", "NONE")
                             ELSE "NONE"]],
              LAMBDA b : b.style # "NONE")

\* the "Background:" line, if any
background_lines(eff_format, properties) ==
    IF Wanted(properties, "background")
       /\ DOMAIN Get(eff_format, "backgroundColor", EmptyDict) # {}
    THEN << [label |-> "Background",
             parts |-> << format_color(eff_format.backgroundColor) >>] >>
    ELSE << >>

\* the "Text:" line, if any
text_lines(eff_format, properties) ==
    IF Wanted(properties, "text_format")
       /\ Len(text_desc(Get(eff_format, "textFormat", EmptyDict))) > 0
    THEN << [label |-> "Text", parts |-> text_desc(eff_format.textFormat)] >>
    ELSE << >>

\* the "Number Format:" line, if any
number_lines(eff_format, properties) ==
    IF Wanted(properties, "number_format")
       /\ DOMAIN Get(eff_format, "numberFormat", EmptyDict) # {}
    THEN << [label |-> "Number Format",
             parts |-> << Get(eff_format.numberFormat, "type", "UNKNOWN") >>
                       \o (IF Get(eff_format.numberFormat, "pattern", "") # ""
                           THEN << eff_format.numberFormat.pattern >> ELSE << >>)] >>
    ELSE << >>

\* the "Alignment:" line, if any
alignment_lines(eff_format, properties) ==
    IF Wanted(properties, "alignment")
       /\ \/ Get(eff_format, "horizontalAlignment", "") # ""
          \/ Get(eff_format, "verticalAlignment", "") # ""
    THEN << [label |-> "Alignment",
             parts |-> (IF Get(eff_format, "horizontalAlignment", "") # ""
                        THEN << [H |-> eff_format.horizontalAlignment] >> ELSE << >>)
                       \o (IF Get(eff_format, "verticalAlignment", "") # ""
                           THEN << [V |-> eff_format.verticalAlignment] >> ELSE << >>)] >>
    ELSE << >>

\* the "Text Wrap:" line, if any
wrap_lines(eff_format, properties) ==
    IF Wanted(properties, "wrap") /\ Get(eff_format, "wrapStrategy", "") # ""
    THEN << [label |-> "Text Wrap", parts |-> << eff_format.wrapStrategy >>] >>
    ELSE << >>

\* the "Borders:" line, if any
borders_lines(eff_format, properties) ==
    IF Wanted(properties, "borders")
       /\ Len(border_desc(Get(eff_format, "borders", EmptyDict))) > 0
    THEN << [label |-> "Borders", parts |-> border_desc(eff_format.borders)] >>
    ELSE << >>

\* _describe_cell_properties: the lines of the description, in order (the
\* result joins them with newlines; no line gives "")
describe_cell_properties(cell, properties) ==
    (IF Get(cell, "formattedValue", "") # ""
     THEN << [label |-> "Value", parts |-> << cell.formattedValue >>] >> ELSE << >>)
    \o background_lines(Get(cell, "effectiveFormat", EmptyDict), properties)
    \o text_lines(Get(cell, "effectiveFormat", EmptyDict), properties)
    \o number_lines(Get(cell, "effectiveFormat", EmptyDict), properties)
    \o alignment_lines(Get(cell, "effectiveFormat", EmptyDict), properties)
    \o wrap_lines(Get(cell, "effectiveFormat", EmptyDict), properties)
    \o borders_lines(Get(cell, "effectiveFormat", EmptyDict), properties)

-----------------------------------------------------------------------------
(* Inputs of the pure helpers *)

MaxLetters    == 3   \* longest column name given to the column codec
MaxIndex      == 730 \* largest column index given to the column codec
MaxCellLetters == 2  \* longest column name inside a cell range
MaxGridRow    == 3   \* rows 0..MaxGridRow (and a few two/three digit ones)
MaxRows       == 2   \* most elements of an input list
MaxCols       == 2   \* most cells of an inner list

SeqsUpTo(S, n) == UNION { [1..k -> S] : k \in 1..n }

CodecLetters == { "A", "B", "Z" }
ColumnNames  == SeqsUpTo(CodecLetters, MaxLetters)

CellLetters == { "A", "C", "Z" }
\* row numerals: one and two digits, a leading zero, and row 0
RowNumerals == { << "0" >>, << "1" >>, << "3" >>, << "1", "0" >>, << "0", "3" >> }
Cells ==
    { l \o d : l \in SeqsUpTo(CellLetters, MaxCellLetters), d \in RowNumerals }
\* every string of the grammar <letters><digits>(:<letters><digits>)?
CellRanges == Cells \cup { a \o << ":" >> \o b : a \in Cells, b \in Cells }

SheetIds   == { 0, 7 }
SheetNames == { DefaultSheet, << "D", "a", "t", "a" >> }

GridRows == (0..MaxGridRow) \cup { 9, 10, 99 }
GridCols == { 0, 1, 2, 3, 25, 26, 27, 702 }
FullGridRanges ==
    [ sheetId : SheetIds, startRowIndex : GridRows, endRowIndex : GridRows,
      startColumnIndex : GridCols, endColumnIndex : GridCols ]
OpenGridRanges ==
    [ sheetId : SheetIds, startRowIndex : GridRows, startColumnIndex : GridCols ]
        \cup [ sheetId : SheetIds ]

\* texts outside the grammar: column-only, lower case, row-only, empty, a
\* lower-case end corner, a missing end row, a trailing character, two
\* colons, plain text
OtherRanges ==
    { << "A", ":", "D" >>, << "a", "1", ":", "b", "2" >>, << "1", ":", "3" >>,
      << >>, << "A", "1", ":", "b", "2" >>, << "A", "1", ":", "B" >>,
      << "Z", "3", "x" >>, << "A", "1", ":", "B", "2", ":", "C", "3" >>,
      << "x", "y", "z" >> }

\* references given to _analyze_range, with and without a sheet name
AnalyzeInputs ==
    { p \o r : p \in { << >>, << "D", "a", "t", "a", "!" >> },
               r \in CellRanges \cup OtherRanges }

\* values given for a boolean flag
BoolInputs ==
    { PNone, PBool(TRUE), PBool(FALSE), PInt(1), PInt(0), PInt(2),
      PStr(<< "t", "r", "u", "e" >>), PStr(<< "1" >>), PStr(<< "y", "e", "s" >>),
      PStr(<< "o", "n" >>), PStr(<< "f", "a", "l", "s", "e" >>), PStr(<< "0" >>),
      PStr(<< "n", "o" >>), PStr(<< "o", "f", "f" >>),
      PStr(<< "T", "r", "u", "e" >>), PStr(<< " ", "O", "F", "F", " " >>),
      PStr(<< "2" >>), PStr(<< "0", "0" >>), PStr(<< "-", "0" >>),
      PStr(<< "x" >>), PStr(<< >>) }

\* colour strings: three byte pairs in either letter case, with or without
\* "#"; and strings that are too short or hold a non-hexadecimal character
HexPairs ==
    { << "0", "0" >>, << "f", "f" >>, << "F", "F" >>, << "0", "a" >>,
      << "A", "0" >>, << "7", "f" >>, << "8", "0" >>, << "f", "E" >> }
HexColors ==
    { p \o r \o g \o b : p \in { << >>, << "#" >> },
                         r \in HexPairs, g \in HexPairs, b \in HexPairs }
BadColors ==
    { << "#", "F", "F", "0", "0" >>, << "r", "e", "d" >>, << >>,
      << "#", "G", "G", "0", "0", "0", "0" >> }

\* colour dicts given to _format_color
ColorDicts ==
    { [k \in {} |-> None],
      [red |-> Frac(255, 255)],
      [red |-> Frac(1, 2), green |-> Frac(0, 1), blue |-> Frac(1, 1)],
      [red |-> Frac(10, 255), green |-> Frac(160, 255), blue |-> Frac(0, 255),
       alpha |-> Frac(1, 2)] }

ScalarValues == { Scalar("a"), Scalar("b") }
InnerLists   == { List(xs) : xs \in { << >> } \cup SeqsUpTo(ScalarValues, MaxCols) }
Elements     == ScalarValues \cup InnerLists
InputValues  ==
    { None } \cup ScalarValues
        \cup { List(xs) : xs \in { << >> } \cup SeqsUpTo(Elements, MaxRows) }

-----------------------------------------------------------------------------
(* Applying the pure helpers *)

\* an effective format with active formatting in every category
FullFormat ==
    [backgroundColor     |-> [red |-> Frac(255, 255)],
     textFormat          |-> [bold |-> TRUE, fontSize |-> 10],
     numberFormat        |-> [type |-> "DATE", pattern |-> "yyyy"],
     horizontalAlignment |-> "LEFT",
     verticalAlignment   |-> "TOP",
     wrapStrategy        |-> "WRAP",
     borders             |-> [top |-> [style |-> "SOLID"], bottom |-> [style |-> "NONE"]]]

\* one category of an effective format, with and without active formatting
FormatParts ==
    { [backgroundColor |-> EmptyDict],
      [backgroundColor |-> [green |-> Frac(128, 255)]],
      [textFormat |-> EmptyDict],
      [textFormat |-> [bold |-> FALSE]],
      [textFormat |-> [bold |-> FALSE, italic |-> FALSE, underline |-> FALSE,
                       strikethrough |-> FALSE]],
      [textFormat |-> [italic |-> TRUE]],
      [textFormat |-> [fontFamily |-> "Arial"]],
      [textFormat |-> [foregroundColor |-> EmptyDict]],
      [numberFormat |-> EmptyDict],
      [numberFormat |-> [type |-> "NUMBER"]],
      [numberFormat |-> [pattern |-> "0.00"]],
      [horizontalAlignment |-> ""],
      [horizontalAlignment |-> "CENTER"],
      [verticalAlignment |-> "MIDDLE"],
      [wrapStrategy |-> ""],
      [wrapStrategy |-> "CLIP"],
      [borders |-> EmptyDict],
      [borders |-> [top |-> [style |-> "NONE"], bottom |-> [style |-> "NONE"],
                    left |-> [style |-> "NONE"], right |-> [style |-> "NONE"]]],
      [borders |-> [left |-> EmptyDict]],
      [borders |-> [right |-> [style |-> "DASHED"], top |-> [style |-> "NONE"]]] }

\* d1 updated with the keys of d2
Merge(d1, d2) ==
    [k \in DOMAIN d1 \cup DOMAIN d2 |-> IF k \in DOMAIN d2 THEN d2[k] ELSE d1[k]]

\* effective formats: none, full, one category alone, one category changed
\* in the full format, one category missing from the full format
EffFormats ==
    { EmptyDict, FullFormat }
    \cup { Merge(base, part) : base \in { EmptyDict, FullFormat }, part \in FormatParts }
    \cup { [k \in DOMAIN FullFormat \ { gone } |-> FullFormat[k]] : gone \in DOMAIN FullFormat }

DescribedCells ==
    { [effectiveFormat |-> f] : f \in EffFormats }
    \cup { EmptyDict, [formattedValue |-> "X"],
           [formattedValue |-> "X", effectiveFormat |-> FullFormat] }

\* property filters: None, empty, and lists of categories
PropertyFilters ==
    { PNone, List(<< >>), List(<< "background" >>), List(<< "borders" >>),
      List(<< "text_format", "borders" >>),
      List(<< "number_format", "alignment", "wrap" >>),
      List(<< "background", "text_format", "number_format", "alignment", "wrap",
              "borders" >>) }

NoOutcome == [kind |-> "none"]

\* no helper applied yet; no tool is invoked while the helpers are exercised
InitPure ==
    /\ fn = "none" /\ arg = None /\ ret = None
    /\ doc = [sheets |-> << >>]
    /\ applied = << >>
    /\ pc = "idle"
    /\ inv = None
    /\ local = None
    /\ calls = << >>
    /\ outcome = NoOutcome

ColumnLetterToIndex ==
    /\ fn = "none"
    /\ \E letter \in ColumnNames :
          /\ arg' = letter
          /\ ret' = column_letter_to_index(letter)
    /\ fn' = "column_letter_to_index"
    /\ UNCHANGED toolVars

ColumnIndexToLetter ==
    /\ fn = "none"
    /\ \E index \in 0..MaxIndex :
          /\ arg' = index
          /\ ret' = column_index_to_letter(index)
    /\ fn' = "column_index_to_letter"
    /\ UNCHANGED toolVars

ConvertA1ToGridRange ==
    /\ fn = "none"
    /\ \E a1 \in CellRanges \cup OtherRanges, id \in SheetIds :
          /\ arg' = [a1_notation |-> a1, sheet_id |-> id]
          /\ ret' = convert_a1_to_grid_range(a1, id)
    /\ fn' = "convert_a1_to_grid_range"
    /\ UNCHANGED toolVars

GridRangeToA1 ==
    /\ fn = "none"
    /\ \E g \in FullGridRanges \cup OpenGridRanges, n \in SheetNames :
          /\ arg' = [grid_range |-> g, sheet_name |-> n]
          /\ ret' = grid_range_to_a1(g, n)
    /\ fn' = "grid_range_to_a1"
    /\ UNCHANGED toolVars

Validate2dArray ==
    /\ fn = "none"
    /\ \E values \in InputValues :
          /\ arg' = values
          /\ ret' = validate_2d_array(values)
    /\ fn' = "validate_2d_array"
    /\ UNCHANGED toolVars

ParseBoolean ==
    /\ fn = "none"
    /\ \E value \in BoolInputs :
          /\ arg' = value
          /\ ret' = parse_boolean(value)
    /\ fn' = "parse_boolean"
    /\ UNCHANGED toolVars

AnalyzeRange ==
    /\ fn = "none"
    /\ \E range_str \in AnalyzeInputs :
          /\ arg' = range_str
          /\ ret' = analyze_range(range_str)
    /\ fn' = "analyze_range"
    /\ UNCHANGED toolVars

HexToRgbDict ==
    /\ fn = "none"
    /\ \E hex_color \in HexColors \cup BadColors :
          /\ arg' = hex_color
          /\ ret' = hex_to_rgb_dict(hex_color)
    /\ fn' = "hex_to_rgb_dict"
    /\ UNCHANGED toolVars

FormatColor ==
    /\ fn = "none"
    /\ \E color_dict \in ColorDicts :
          /\ arg' = color_dict
          /\ ret' = format_color(color_dict)
    /\ fn' = "format_color"
    /\ UNCHANGED toolVars

DescribeCellProperties ==
    /\ fn = "none"
    /\ \E cell \in DescribedCells, properties \in PropertyFilters :
          /\ arg' = [cell |-> cell, properties |-> properties]
          /\ ret' = describe_cell_properties(cell, properties)
    /\ fn' = "describe_cell_properties"
    /\ UNCHANGED toolVars

PureNext ==
    \/ ColumnLetterToIndex
    \/ ColumnIndexToLetter
    \/ ConvertA1ToGridRange
    \/ GridRangeToA1
    \/ Validate2dArray
    \/ ParseBoolean
    \/ AnalyzeRange
    \/ HexToRgbDict
    \/ FormatColor
    \/ DescribeCellProperties

SpecPure == InitPure /\ [][PureNext]_vars

-----------------------------------------------------------------------------
(* Column codec and grid range converter: properties *)

\* value of s as a bijective base-26 numeral, digits "A" = 1 .. "Z" = 26,
\* least significant digit last
RECURSIVE Bijective26(_)
Bijective26(s) ==
    IF Len(s) = 0 THEN 0
    ELSE LetterOrd(s[Len(s)]) + 26 * Bijective26(SubSeq(s, 1, Len(s) - 1))

\* C1: for every non-empty string s of uppercase letters,
\* _column_letter_to_index(s) is the bijective base-26 value of s minus 1
\* (A -> 0, Z -> 25, AA -> 26, AZ -> 51), and
\* _column_index_to_letter(_column_letter_to_index(s)) = s.
C1_ColumnCodecRoundTrip ==
    fn = "column_letter_to_index" =>
        /\ ret = Bijective26(arg) - 1
        /\ column_index_to_letter(ret) = arg
        /\ (arg = << "A" >> => ret = 0)
        /\ (arg = << "Z" >> => ret = 25)
        /\ (arg = << "A", "A" >> => ret = 26)
        /\ (arg = << "A", "Z" >> => ret = 51)

C1_Witness ==
    /\ fn = "column_letter_to_index"
    /\ arg = << "A", "Z" >>
    /\ ret = 51
    /\ column_index_to_letter(ret) = << "A", "Z" >>

\* position of the ":" in a cell range, 0 for a single cell
RECURSIVE ColonPos(_, _)
ColonPos(s, p) ==
    IF p > Len(s) THEN 0
    ELSE IF s[p] = ":" THEN p ELSE ColonPos(s, p + 1)

StartCell(r) ==
    IF ColonPos(r, 1) = 0 THEN r ELSE SubSeq(r, 1, ColonPos(r, 1) - 1)
EndCell(r) == SubSeq(r, ColonPos(r, 1) + 1, Len(r))
LettersOf(cell) == SelectSeq(cell, IsUpper)
DigitsOf(cell)  == SelectSeq(cell, IsDigit)
ColOf(cell) == Bijective26(LettersOf(cell)) - 1
RowOf(cell) == ParseInt(DigitsOf(cell))

\* s is a cell <letters><digits>, letters upper case and digits decimal
IsCell(s) ==
    \E k \in 1..(Len(s) - 1) :
        /\ \A i \in 1..k : IsUpper(s[i])
        /\ \A i \in (k + 1)..Len(s) : IsDigit(s[i])

\* s is of the grammar <letters><digits>(:<letters><digits>)?
InGrammar(s) ==
    \/ IsCell(s)
    \/ \E c \in 1..Len(s) :
          /\ s[c] = ":"
          /\ IsCell(SubSeq(s, 1, c - 1))
          /\ IsCell(SubSeq(s, c + 1, Len(s)))

\* the half-open rectangle a cell range of the grammar denotes
Rectangle(r, id) ==
    IF ColonPos(r, 1) = 0
    THEN [sheetId          |-> id,
          startRowIndex    |-> RowOf(r) - 1,
          startColumnIndex |-> ColOf(r),
          endRowIndex      |-> RowOf(r),
          endColumnIndex   |-> ColOf(r) + 1]
    ELSE [sheetId          |-> id,
          startRowIndex    |-> RowOf(StartCell(r)) - 1,
          startColumnIndex |-> ColOf(StartCell(r)),
          endRowIndex      |-> RowOf(EndCell(r)),
          endColumnIndex   |-> ColOf(EndCell(r)) + 1]

\* C2: for every cell range of the grammar and every sheetId,
\* _convert_a1_to_grid_range returns the half-open rectangle
\* {sheetId, startRow-1, index(startLetters), endRow, index(endLetters)+1};
\* a single cell gives the 1x1 rectangle.
C2_ConvertIsHalfOpenRectangle ==
    (fn = "convert_a1_to_grid_range" /\ InGrammar(arg.a1_notation)) =>
        /\ DOMAIN ret = { "sheetId", "startRowIndex", "endRowIndex",
                          "startColumnIndex", "endColumnIndex" }
        /\ ret = Rectangle(arg.a1_notation, arg.sheet_id)
        /\ ColonPos(arg.a1_notation, 1) = 0 =>
              /\ ret.endRowIndex = ret.startRowIndex + 1
              /\ ret.endColumnIndex = ret.startColumnIndex + 1

C2_Witness ==
    /\ fn = "convert_a1_to_grid_range"
    /\ arg = [a1_notation |-> << "A", "1", ":", "C", "3" >>, sheet_id |-> 7]
    /\ ret = [sheetId |-> 7, startRowIndex |-> 0, endRowIndex |-> 3,
              startColumnIndex |-> 0, endColumnIndex |-> 3]

\* a GridRange carrying all four indices with 0 <= start < end on both axes
WellFormed(g) ==
    /\ DOMAIN g = { "sheetId", "startRowIndex", "endRowIndex",
                    "startColumnIndex", "endColumnIndex" }
    /\ 0 <= g.startRowIndex /\ g.startRowIndex < g.endRowIndex
    /\ 0 <= g.startColumnIndex /\ g.startColumnIndex < g.endColumnIndex

\* s is the decimal numeral of n without leading zeros
IsDecimalOf(s, n) ==
    /\ Len(s) > 0
    /\ \A i \in 1..Len(s) : IsDigit(s[i])
    /\ (Len(s) > 1 => s[1] # "0")
    /\ ParseInt(s) = n

\* C3: for a well-formed GridRange and a sheet name n, _grid_range_to_a1
\* returns n ! letter(startColumnIndex) (startRowIndex+1) :
\* letter(endColumnIndex-1) endRowIndex: the exclusive end bounds become
\* the inclusive last cell.
C3_GridRangeToA1Inclusive ==
    (fn = "grid_range_to_a1" /\ WellFormed(arg.grid_range)) =>
        LET g    == arg.grid_range
            n    == arg.sheet_name
            body == SubSeq(ret, Len(n) + 2, Len(ret))
            c    == ColonPos(body, 1)
            a    == SubSeq(body, 1, c - 1)
            b    == SubSeq(body, c + 1, Len(body))
            la   == SpanUpper(a, 1)
            lb   == SpanUpper(b, 1)
        IN  /\ SubSeq(ret, 1, Len(n) + 1) = n \o << "!" >>
            /\ c > 0
            /\ la > 0 /\ lb > 0
            /\ Bijective26(SubSeq(a, 1, la)) - 1 = g.startColumnIndex
            /\ IsDecimalOf(SubSeq(a, la + 1, Len(a)), g.startRowIndex + 1)
            /\ Bijective26(SubSeq(b, 1, lb)) - 1 = g.endColumnIndex - 1
            /\ IsDecimalOf(SubSeq(b, lb + 1, Len(b)), g.endRowIndex)

C3_Witness ==
    /\ fn = "grid_range_to_a1"
    /\ arg = [grid_range |-> [sheetId |-> 7, startRowIndex |-> 0,
                              endRowIndex |-> 3, startColumnIndex |-> 0,
                              endColumnIndex |-> 3],
              sheet_name |-> DefaultSheet]
    /\ ret = DefaultSheet \o << "!", "A", "1", ":", "C", "3" >>

\* C4: rectangle coordinates round-trip: converting a cell range of the
\* grammar, rendering the GridRange with any sheet name, stripping the
\* "name!" prefix and converting again with the same id gives a GridRange
\* equal in all five fields.
C4_RectangleRoundTrip ==
    (fn = "convert_a1_to_grid_range" /\ InGrammar(arg.a1_notation)) =>
        \A n \in SheetNames :
            LET text     == grid_range_to_a1(ret, n)
                stripped == SubSeq(text, Len(n) + 2, Len(text))
                again    == convert_a1_to_grid_range(stripped, arg.sheet_id)
            IN  /\ SubSeq(text, 1, Len(n) + 1) = n \o << "!" >>
                /\ DOMAIN again = DOMAIN ret
                /\ \A k \in DOMAIN ret : again[k] = ret[k]
                /\ Cardinality(DOMAIN ret) = 5

\* a single cell comes back as a two-corner range with the same rectangle
C4_Witness ==
    /\ fn = "convert_a1_to_grid_range"
    /\ arg = [a1_notation |-> << "A", "Z", "3" >>, sheet_id |-> 7]
    /\ grid_range_to_a1(ret, DefaultSheet)
          = DefaultSheet \o << "!", "A", "Z", "3", ":", "A", "Z", "3" >>
    /\ convert_a1_to_grid_range(<< "A", "Z", "3", ":", "A", "Z", "3" >>, 7) = ret

-----------------------------------------------------------------------------
(* Value shape normalizer: properties *)

AllLists(xs) == \A i \in 1..Len(xs) : IsList(xs[i])

\* C5: _validate_2d_array maps a scalar x to [[x]], a non-empty list whose
\* first element is not a list to the single row [input], and a non-empty
\* list of lists to itself.
C5_NormalizeShapes ==
    fn = "validate_2d_array" =>
        /\ arg.t = "scalar" =>
              ret.ok /\ ret.value = List(<< List(<< arg >>) >>)
        /\ (IsList(arg) /\ Len(arg.v) > 0 /\ ~IsList(arg.v[1])) =>
              ret.ok /\ ret.value = List(<< arg >>)
        /\ (IsList(arg) /\ Len(arg.v) > 0 /\ AllLists(arg.v)) =>
              ret.ok /\ ret.value = arg

C5_Witness ==
    /\ fn = "validate_2d_array"
    /\ arg = List(<< Scalar("a"), Scalar("b") >>)
    /\ ret.ok
    /\ ret.value = List(<< List(<< Scalar("a"), Scalar("b") >>) >>)

-----------------------------------------------------------------------------
(* Remote spreadsheet service and tool invocations *)

MaxUpdates == 2   \* most entries of batch_update_values' updates list

DataSheet == << "D", "a", "t", "a" >>
NopeSheet == << "N", "o", "p", "e" >>

\* a sheet of the remote spreadsheet: its properties, its conditional format
\* rules (the key is present only when it has rules) and its grid data (the
\* key is returned only with includeGridData)
Sheet(title, id, rows) ==
    [properties |-> [title |-> title, sheetId |-> id],
     data |-> << [rowData |-> rows] >>]
SheetWithRules(title, id, rows, rules) ==
    [properties |-> [title |-> title, sheetId |-> id],
     data |-> << [rowData |-> rows] >>,
     conditionalFormats |-> rules]

Rule(ids) == [ranges |-> [i \in 1..Len(ids) |-> [sheetId |-> ids[i]]]]

\* grids: no cell at all; the value "X" in B3; a value in A1 and a cell in
\* C2 that carries a format and no value
NoRows  == << >>
XInB3   == << EmptyDict, EmptyDict,
              [values |-> << EmptyDict, [formattedValue |-> "X"] >>] >>
Mixed   == << [values |-> << [formattedValue |-> "1",
                              effectiveFormat |-> [bold |-> TRUE]] >>],
              [values |-> << EmptyDict, EmptyDict,
                             [effectiveFormat |-> [bold |-> TRUE]] >>] >>

\* a grid whose only cell, B2, carries a format and no value
FormatOnly == << EmptyDict,
                 [values |-> << EmptyDict, [effectiveFormat |-> [bold |-> TRUE]] >>] >>

\* the spreadsheets a tool may be invoked on
Documents ==
    { [sheets |-> << SheetWithRules(DefaultSheet, 0, XInB3,
                         << Rule(<< 0 >>), Rule(<< 7 >>), Rule(<< 7, 0 >>) >>),
                     SheetWithRules(DataSheet, 7, Mixed, << Rule(<< 7 >>) >>) >>],
      [sheets |-> << Sheet(DataSheet, 7, NoRows), Sheet(DefaultSheet, 3, Mixed) >>],
      [sheets |-> << Sheet(DataSheet, 7, XInB3) >>],
      [sheets |-> << Sheet(DefaultSheet, 0, NoRows) >>],
      [sheets |-> << Sheet(DefaultSheet, 0, FormatOnly) >>],
      [sheets |-> << >>] }

\* range arguments: no sheet name, a named sheet, a sheet that no document
\* has, a cell range outside the grammar
ToolRanges ==
    { << "A", "1", ":", "B", "2" >>,
      DataSheet \o << "!", "A", "1" >>,
      NopeSheet \o << "!", "A", "1" >>,
      DefaultSheet \o << "!", "A", ":", "D" >> }

\* values arguments: None, scalar, empty list, flat list, list of lists,
\* mixed lists
ToolValues ==
    { None, Scalar("a"), List(<< >>),
      List(<< Scalar("a"), Scalar("b") >>),
      List(<< List(<< Scalar("a") >>), List(<< Scalar("b") >>) >>),
      List(<< List(<< Scalar("a") >>), Scalar("b") >>),
      List(<< Scalar("a"), List(<< Scalar("b") >>) >>) }

\* entries of the updates list: dicts with or without "range" / "values"
UpdateEntries ==
    [range : { << "A", "1" >>, DataSheet \o << "!", "A", "1" >> },
     values : ToolValues \ { None }]
        \cup { [range |-> << "A", "1" >>], [values |-> Scalar("a")] }

\* the mutating operations of the remote service
MutatingApis ==
    { "values.update", "values.clear", "values.append", "values.batchUpdate",
      "spreadsheets.batchUpdate" }

\* the tool of the current invocation, "none" before any
InvTool == IF "tool" \in DOMAIN inv THEN inv.tool ELSE "none"

ErrorOutcome(e) == [kind |-> "error", error |-> e.error, msg |-> e.msg]
HttpError == [kind |-> "error", error |-> "HttpError", msg |-> "remote call failed"]
Result(text) == [kind |-> "result", text |-> text]

\* await asyncio.to_thread(<remote call>.execute): the call is issued and
\* either succeeds (a mutating call then takes effect) or raises
Issue(call, ok) ==
    /\ calls' = Append(calls, [call |-> call, ok |-> ok])
    /\ applied' = IF ok /\ call.api \in MutatingApis
                  THEN Append(applied, call) ELSE applied

\* the handler raises before issuing a call
RaiseNow(e) ==
    /\ outcome' = ErrorOutcome(e)
    /\ pc' = "done"
    /\ UNCHANGED << calls, applied >>

\* a single remote call ends the handler: an error if it fails, the result
\* string otherwise
IssueLast(call, ok, text) ==
    /\ Issue(call, ok)
    /\ outcome' = IF ok THEN Result(text) ELSE HttpError
    /\ pc' = "done"

-----------------------------------------------------------------------------
(* Value-writing tools *)

modify_sheet_values_call_rawValues(range_name, values, clear_values) ==
    IF ~clear_values /\ values.t = "none"
    THEN Raise("Exception", "Either 'values' must be provided or 'clear_values' must be True.", -1)
    ELSE IF clear_values
    THEN Return([api |-> "values.clear", range |-> range_name])
    ELSE Return([api |-> "values.update", range |-> range_name, values |-> values])

modify_sheet_values_call_valuesFirst(range_name, values, clear_values) ==
    IF ~clear_values /\ values.t = "none"
    THEN Raise("Exception", "Either 'values' must be provided or 'clear_values' must be True.", -1)
    ELSE IF values.t # "none" /\ ~validate_2d_array(values).ok
    THEN Raise("Exception", "Invalid values format", validate_2d_array(values).row)
    ELSE IF values.t # "none"
    THEN Return([api |-> "values.update", range |-> range_name,
                 values |-> validate_2d_array(values).value])
    ELSE Return([api |-> "values.clear", range |-> range_name])

\* modify_sheet_values up to its remote call
modify_sheet_values_call(range_name, values, clear_values) ==
    IF ~clear_values /\ values.t = "none"
    THEN Raise("Exception", "Either 'values' must be provided or 'clear_values' must be True.", -1)
    ELSE IF ~clear_values /\ values.t # "none" /\ ~validate_2d_array(values).ok
    THEN Raise("Exception", "Invalid values format", validate_2d_array(values).row)
    ELSE IF clear_values
    THEN Return([api |-> "values.clear", range |-> range_name])
    ELSE Return([api |-> "values.update", range |-> range_name,
                 values |-> validate_2d_array(values).value])

\* range_info.get(key, 0)
GetOr0(range_info, key) == IF key \in DOMAIN range_info THEN range_info[key] ELSE 0

\* update_sheet_values: the test that logs the dimension warning, on the
\* normalized values (a list of lists)
dimension_warning(range, validated_values) ==
    LET range_info == analyze_range(range)
        data_rows  == Len(validated_values.v)
        data_cols  == IF Len(validated_values.v) > 0
                      THEN Len(validated_values.v[1].v) ELSE 0
    IN  /\ range_info # None
        /\ range_info.has_bounds
        /\ \/ data_rows # GetOr0(range_info, "rows")
           \/ data_cols # GetOr0(range_info, "cols")

update_sheet_values_call_blockOnMismatch(range, values) ==
    LET validated == validate_2d_array(values)
    IN  IF ~validated.ok
        THEN Raise("Exception", "Invalid values format", validated.row)
        ELSE IF dimension_warning(range, validated.value)
        THEN Raise("Exception", "Data dimensions don't match range dimensions", -1)
        ELSE Return([api |-> "values.update", range |-> range,
                     values |-> validated.value])

\* update_sheet_values up to its remote call; the range analysis only logs
update_sheet_values_call(range, values) ==
    LET validated == validate_2d_array(values)
    IN  IF ~validated.ok
        THEN Raise("Exception", "Invalid values format", validated.row)
        ELSE Return([api |-> "values.update", range |-> range,
                     values |-> validated.value])

\* append_sheet_values up to its remote call
append_sheet_values_call(range, values) ==
    LET validated == validate_2d_array(values)
    IN  IF ~validated.ok
        THEN Raise("Exception", "Invalid values format", validated.row)
        ELSE Return([api |-> "values.append", range |-> range,
                     values |-> validated.value])

\* batch_update_values: the loop that validates and prepares all updates
RECURSIVE batch_data(_, _)
batch_data(updates, data) ==
    IF Len(updates) = 0 THEN Return(data)
    ELSE LET update == Head(updates)
         IN  IF "range" \notin DOMAIN update \/ "values" \notin DOMAIN update
             THEN Raise("Exception", "Each update must have 'range' and 'values' keys", -1)
             ELSE LET validated == validate_2d_array(update.values)
                  IN  IF ~validated.ok
                      THEN Raise("Exception", "Invalid values format for range", validated.row)
                      ELSE batch_data(Tail(updates),
                                      Append(data, [range |-> update.range,
                                                    values |-> validated.value]))

\* batch_update_values writing the valid entries and skipping the others
batch_update_values_call_skipInvalid(updates) ==
    LET Valid(u) == /\ { "range", "values" } \subseteq DOMAIN u
                    /\ validate_2d_array(u.values).ok
        good     == SelectSeq(updates, Valid)
    IN  Return([api |-> "values.batchUpdate",
                data |-> [k \in 1..Len(good) |->
                            [range |-> good[k].range,
                             values |-> validate_2d_array(good[k].values).value]]])

\* batch_update_values up to its remote call
batch_update_values_call(updates) ==
    LET data == batch_data(updates, << >>)
    IN  IF ~data.ok THEN data
        ELSE Return([api |-> "values.batchUpdate", data |-> data.value])

ModifySheetValues ==
    /\ pc = "idle"
    /\ \E range_name \in ToolRanges, values \in ToolValues,
          clear_values \in BOOLEAN, ok \in BOOLEAN :
          LET c == modify_sheet_values_call(range_name, values, clear_values)
          IN  /\ inv' = [tool |-> "modify_sheet_values", range |-> range_name,
                         values |-> values, clear_values |-> clear_values]
              /\ IF c.ok
                 THEN IssueLast(c.value, ok,
                                IF clear_values THEN "Successfully cleared range"
                                ELSE "Successfully updated range")
                 ELSE RaiseNow(c)
    /\ UNCHANGED << fn, arg, ret, doc, local >>

\* range arguments of update_sheet_values: also an inverted range, the empty
\* string, a corner that is no cell, two colons, and rectangles of other
\* dimensions than the data
UpdateRanges ==
    ToolRanges \cup { << "B", "2", ":", "A", "1" >>, << >>, << "A", "1", ":", "B" >>,
                      << "A", "1", ":", "B", "2", ":", "C", "3" >>,
                      << "A", "1", ":", "C", "3" >>, << "A", "1", ":", "A", "1" >> }

UpdateSheetValues ==
    /\ pc = "idle"
    /\ \E range \in UpdateRanges, values \in ToolValues, ok \in BOOLEAN :
          LET c == update_sheet_values_call(range, values)
          IN  /\ inv' = [tool |-> "update_sheet_values", range |-> range,
                         values |-> values]
              /\ IF c.ok
                 THEN /\ IssueLast(c.value, ok, "Successfully updated range")
                      /\ local' = [warned |-> dimension_warning(range, c.value.values)]
                 ELSE /\ RaiseNow(c)
                      /\ local' = local
    /\ UNCHANGED << fn, arg, ret, doc >>

AppendSheetValues ==
    /\ pc = "idle"
    /\ \E range \in ToolRanges, values \in ToolValues, ok \in BOOLEAN :
          LET c == append_sheet_values_call(range, values)
          IN  /\ inv' = [tool |-> "append_sheet_values", range |-> range,
                         values |-> values]
              /\ IF c.ok
                 THEN IssueLast(c.value, ok, "Successfully appended data")
                 ELSE RaiseNow(c)
    /\ UNCHANGED << fn, arg, ret, doc, local >>

BatchUpdateValues ==
    /\ pc = "idle"
    /\ \E updates \in { << >> } \cup SeqsUpTo(UpdateEntries, MaxUpdates),
          ok \in BOOLEAN :
          LET c == batch_update_values_call(updates)
          IN  /\ inv' = [tool |-> "batch_update_values", updates |-> updates]
              /\ IF c.ok
                 THEN IssueLast(c.value, ok, "Successfully performed batch updates")
                 ELSE RaiseNow(c)
    /\ UNCHANGED << fn, arg, ret, doc, local >>

-----------------------------------------------------------------------------
(* Tools that resolve a sheet name in the fetched metadata, then mutate *)

RECURSIVE FindSheet(_, _, _)
FindSheet(sheets, sheet_name, i) ==
    IF i > Len(sheets) THEN 0
    ELSE IF sheets[i].properties.title = sheet_name THEN i
    ELSE FindSheet(sheets, sheet_name, i + 1)

get_sheet_id_by_name_firstSheet(spreadsheet, sheet_name) ==
    LET sheets == Get(spreadsheet, "sheets", << >>)
        i      == FindSheet(sheets, sheet_name, 1)
    IN  IF i > 0 THEN Return(sheets[i].properties.sheetId)
        ELSE IF Len(sheets) > 0 THEN Return(sheets[1].properties.sheetId)
        ELSE Return(0)

\* _get_sheet_id_by_name
get_sheet_id_by_name(spreadsheet, sheet_name) ==
    LET sheets == Get(spreadsheet, "sheets", << >>)
        i      == FindSheet(sheets, sheet_name, 1)
    IN  IF i > 0 THEN Return(sheets[i].properties.sheetId)
        ELSE Raise("ValueError", "Sheet not found", -1)

BatchUpdate(requests) == [api |-> "spreadsheets.batchUpdate", requests |-> requests]

\* spreadsheet = await ...get(spreadsheetId=spreadsheet_id).execute: the
\* first await of a handler, entered with the locals computed before it
FetchMetadata(ok, locals, label) ==
    /\ Issue([api |-> "spreadsheets.get"], ok)
    /\ IF ok
       THEN /\ local' = locals
            /\ pc' = label
            /\ outcome' = outcome
       ELSE /\ local' = local
            /\ pc' = "done"
            /\ outcome' = HttpError

\* Python truthiness of a parameter
Truthy(x) ==
    CASE x.t = "none" -> FALSE
      [] x.t = "bool" -> x.v
      [] x.t = "int"  -> x.v # 0
      [] x.t = "str"  -> Len(x.v) > 0

\* _get_update_fields_from_format: the field mask, as the list of names that
\* is joined with ","
InFormat(cell_format, f) == f \in DOMAIN cell_format
get_update_fields_from_format(cell_format) ==
    SelectSeq(<< "backgroundColor", "textFormat", "horizontalAlignment",
                 "verticalAlignment", "wrapStrategy", "numberFormat", "borders" >>,
              LAMBDA f : InFormat(cell_format, f))

\* the colour dict of a truthy colour argument that converts
ColorValue(x) ==
    IF Truthy(x) /\ hex_to_rgb_dict(x.v).ok THEN hex_to_rgb_dict(x.v).value
    ELSE EmptyDict

\* the ValueError of the first truthy colour argument that does not convert
ColorError(cs) ==
    IF \E i \in 1..Len(cs) : Truthy(cs[i]) /\ ~hex_to_rgb_dict(cs[i].v).ok
    THEN hex_to_rgb_dict(cs[CHOOSE i \in 1..Len(cs) :
                               /\ Truthy(cs[i]) /\ ~hex_to_rgb_dict(cs[i].v).ok
                               /\ \A j \in 1..(i - 1) :
                                     ~Truthy(cs[j]) \/ hex_to_rgb_dict(cs[j].v).ok].v)
    ELSE Return(None)

\* the keys of the text_format dict format_cells builds
text_format_keys(a) ==
    { k \in { "foregroundColor" } : Truthy(a.font_color) }
    \cup { k \in { "fontSize" } : Truthy(a.font_size) }
    \cup { k \in { "fontFamily" } : Truthy(a.font_family) }
    \cup { k \in { "bold", "italic", "underline", "strikethrough" } :
             parse_boolean(a[k]) # None }

\* the value text_format holds under key k
text_format_value(a, k) ==
    CASE k = "foregroundColor" -> ColorValue(a.font_color)
      [] k = "fontSize"        -> a.font_size.v
      [] k = "fontFamily"      -> a.font_family.v
      [] OTHER                 -> parse_boolean(a[k]).v

format_cells_text_format_noneAsFalse(a) ==
    [k \in text_format_keys(a) \cup { "bold", "italic", "underline", "strikethrough" } |->
        IF k \in { "bold", "italic", "underline", "strikethrough" }
        THEN parse_boolean(a[k]) = PBool(TRUE)
        ELSE text_format_value(a, k)]

\* the text_format dict format_cells builds
format_cells_text_format(a) ==
    [k \in text_format_keys(a) |-> text_format_value(a, k)]

\* the number_format_obj dict
format_cells_number_format(a) ==
    [k \in { x \in { "type" } : Truthy(a.number_format) }
           \cup { x \in { "pattern" } : Truthy(a.number_format_pattern) } |->
        IF k = "type" THEN a.number_format.v ELSE a.number_format_pattern.v]

\* border_style or "SOLID"
SOLID == << "S", "O", "L", "I", "D" >>

\* the border dict put on the four sides
format_cells_border(a) ==
    [style |-> IF Truthy(a.border_style) THEN a.border_style.v ELSE SOLID,
     color |-> IF Truthy(a.border_color) THEN ColorValue(a.border_color)
               ELSE [red |-> Frac(0, 1), green |-> Frac(0, 1), blue |-> Frac(0, 1)]]

\* the keys of the cell_format dict format_cells builds
cell_format_keys(a) ==
    { k \in { "backgroundColor" } : Truthy(a.background_color) }
    \cup { k \in { "textFormat" } : text_format_keys(a) # {} }
    \cup { k \in { "horizontalAlignment" } : Truthy(a.horizontal_alignment) }
    \cup { k \in { "verticalAlignment" } : Truthy(a.vertical_alignment) }
    \cup { k \in { "wrapStrategy" } : Truthy(a.text_wrap) }
    \cup { k \in { "numberFormat" } :
             Truthy(a.number_format) \/ Truthy(a.number_format_pattern) }
    \cup { k \in { "borders" } : Truthy(a.border_style) \/ Truthy(a.border_color) }

\* the value cell_format holds under key k
cell_format_value(a, k) ==
    CASE k = "backgroundColor"     -> ColorValue(a.background_color)
      [] k = "textFormat"          -> format_cells_text_format(a)
      [] k = "horizontalAlignment" -> a.horizontal_alignment.v
      [] k = "verticalAlignment"   -> a.vertical_alignment.v
      [] k = "wrapStrategy"        -> a.text_wrap.v
      [] k = "numberFormat"        -> format_cells_number_format(a)
      [] k = "borders"             ->
            [top    |-> format_cells_border(a), bottom |-> format_cells_border(a),
             left   |-> format_cells_border(a), right  |-> format_cells_border(a)]

\* the cell_format dict format_cells builds
format_cells_cell_format(a) ==
    [k \in cell_format_keys(a) |-> cell_format_value(a, k)]

\* format_cells after the metadata fetch, up to the batchUpdate
format_cells_call(spreadsheet, sheet_name, cell_range, a) ==
    LET sheet_id == get_sheet_id_by_name(spreadsheet, sheet_name)
        bad      == ColorError(<< a.background_color, a.font_color, a.border_color >>)
    IN  IF ~sheet_id.ok THEN sheet_id
        ELSE IF ~bad.ok THEN bad
        ELSE Return(BatchUpdate(<<
                 [repeatCell |->
                     [range  |-> convert_a1_to_grid_range(cell_range, sheet_id.value),
                      cell   |-> [userEnteredFormat |-> format_cells_cell_format(a)],
                      fields |-> get_update_fields_from_format(
                                     format_cells_cell_format(a))]] >>))

\* the formatting arguments of format_cells, all None
NoFormat ==
    [background_color |-> PNone, font_color |-> PNone, font_size |-> PNone,
     font_family |-> PNone, bold |-> PNone, italic |-> PNone,
     underline |-> PNone, strikethrough |-> PNone,
     horizontal_alignment |-> PNone, vertical_alignment |-> PNone,
     text_wrap |-> PNone, number_format |-> PNone,
     number_format_pattern |-> PNone, border_style |-> PNone,
     border_color |-> PNone]

RED == << "#", "F", "F", "0", "0", "0", "0" >>

\* formatting arguments: every flexible boolean for bold; the other flags
\* given or not; each other attribute alone; a colour that does not convert
FormatArgs ==
    { [NoFormat EXCEPT !.bold = b] : b \in BoolInputs }
    \cup { [NoFormat EXCEPT !.italic = i, !.underline = u, !.strikethrough = k] :
             i \in { PNone, PStr(<< "t", "r", "u", "e" >>) },
             u \in { PNone, PInt(0) }, k \in { PNone, PBool(FALSE) } }
    \cup { [NoFormat EXCEPT !.bold = PBool(TRUE), !.font_size = z,
                            !.background_color = c] :
             z \in { PNone, PInt(12), PInt(0) }, c \in { PNone, PStr(RED) } }
    \cup { [NoFormat EXCEPT !.font_color = PStr(<< "0", "0", "f", "f", "0", "0" >>)],
           [NoFormat EXCEPT !.font_color = PStr(<< "r", "e", "d" >>)],
           [NoFormat EXCEPT !.font_family = PStr(<< "A", "r", "i", "a", "l" >>)],
           [NoFormat EXCEPT !.horizontal_alignment = PStr(<< "C", "E", "N", "T", "E", "R" >>)],
           [NoFormat EXCEPT !.vertical_alignment = PStr(<< "T", "O", "P" >>)],
           [NoFormat EXCEPT !.text_wrap = PStr(<< "W", "R", "A", "P" >>)],
           [NoFormat EXCEPT !.number_format = PStr(<< "D", "A", "T", "E" >>)],
           [NoFormat EXCEPT !.number_format_pattern = PStr(<< "0", ".", "0", "0" >>)],
           [NoFormat EXCEPT !.border_style = PStr(<< "D", "A", "S", "H", "E", "D" >>)],
           [NoFormat EXCEPT !.border_color = PStr(RED)] }

FormatCellsFetch ==
    /\ pc = "idle"
    /\ \E range \in ToolRanges, a \in FormatArgs, ok \in BOOLEAN :
          /\ inv' = [tool |-> "format_cells", range |-> range, args |-> a]
          /\ FetchMetadata(ok, [sheet_name  |-> parse_range(range)[1],
                                cell_range  |-> parse_range(range)[2],
                                spreadsheet |-> doc],
                           "format_cells:fetched")
    /\ UNCHANGED << fn, arg, ret, doc >>

FormatCellsUpdate ==
    /\ pc = "format_cells:fetched"
    /\ \E ok \in BOOLEAN :
          LET c == format_cells_call(local.spreadsheet, local.sheet_name,
                                     local.cell_range, inv.args)
          IN  IF c.ok
              THEN IssueLast(c.value, ok, "Successfully formatted cells")
              ELSE RaiseNow(c)
    /\ UNCHANGED << fn, arg, ret, doc, inv, local >>

\* str(value)
PyStr(x) ==
    CASE x.t = "int"  -> IntToStr(x.v)
      [] x.t = "none" -> << "N", "o", "n", "e" >>
      [] OTHER        -> x.v

RuleTypes ==
    { "custom_formula", "number_greater", "number_less", "number_between",
      "text_contains", "text_starts_with", "text_ends_with",
      "date_before", "date_after", "gradient" }

\* rule_type.upper(), "CUSTOM_FORMULA" for custom_formula
ConditionType(rule_type) ==
    CASE rule_type = "custom_formula"   -> "CUSTOM_FORMULA"
      [] rule_type = "number_greater"   -> "NUMBER_GREATER"
      [] rule_type = "number_less"      -> "NUMBER_LESS"
      [] rule_type = "number_between"   -> "NUMBER_BETWEEN"
      [] rule_type = "text_contains"    -> "TEXT_CONTAINS"
      [] rule_type = "text_starts_with" -> "TEXT_STARTS_WITH"
      [] rule_type = "text_ends_with"   -> "TEXT_ENDS_WITH"
      [] rule_type = "date_before"      -> "DATE_BEFORE"
      [] rule_type = "date_after"       -> "DATE_AFTER"

\* the loop that converts ranges to grid ranges
RECURSIVE grid_ranges_of(_, _, _)
grid_ranges_of(spreadsheet, ranges, grid_ranges) ==
    IF Len(ranges) = 0 THEN Return(grid_ranges)
    ELSE LET pr       == parse_range(Head(ranges))
             sheet_id == get_sheet_id_by_name(spreadsheet, pr[1])
         IN  IF ~sheet_id.ok THEN sheet_id
             ELSE grid_ranges_of(spreadsheet, Tail(ranges),
                      Append(grid_ranges,
                             convert_a1_to_grid_range(pr[2], sheet_id.value)))

TextRules == { "text_contains", "text_starts_with", "text_ends_with" }
DateRules == { "date_before", "date_after" }

missing_parameter_numbersUnchecked(rule_type, formula, value, min_value, max_value) ==
    CASE rule_type = "custom_formula" -> ~Truthy(formula)
      [] rule_type \in { "number_greater", "number_less" } -> FALSE
      [] rule_type = "number_between" -> min_value.t = "none" \/ max_value.t = "none"
      [] rule_type \in TextRules \cup DateRules -> ~Truthy(value)

\* the tests under which a boolean rule raises: the parameter its rule type
\* requires is missing
missing_parameter(rule_type, formula, value, min_value, max_value) ==
    CASE rule_type = "custom_formula" -> ~Truthy(formula)
      [] rule_type \in { "number_greater", "number_less" } -> value.t = "none"
      [] rule_type = "number_between" -> min_value.t = "none" \/ max_value.t = "none"
      [] rule_type \in TextRules \cup DateRules -> ~Truthy(value)

\* the values of the condition of a boolean rule
condition_values(rule_type, formula, value, min_value, max_value) ==
    CASE rule_type = "custom_formula" -> << [userEnteredValue |-> formula.v] >>
      [] rule_type = "number_between" ->
            << [userEnteredValue |-> PyStr(min_value)],
               [userEnteredValue |-> PyStr(max_value)] >>
      [] rule_type \in DateRules -> << [relativeDate |-> value.v] >>
      [] OTHER -> << [userEnteredValue |-> PyStr(value)] >>

\* the text of the ValueError for a missing parameter
missing_message(rule_type) ==
    CASE rule_type = "custom_formula" -> "Formula is required for custom_formula rule type"
      [] rule_type = "number_between" ->
            "Both min_value and max_value are required for number_between rule type"
      [] OTHER -> "Value is required for the rule type"

\* the condition of a boolean rule, or the ValueError for a missing parameter
rule_condition(rule_type, formula, value, min_value, max_value) ==
    IF missing_parameter(rule_type, formula, value, min_value, max_value)
    THEN Raise("ValueError", missing_message(rule_type), -1)
    ELSE Return([type   |-> ConditionType(rule_type),
                 values |-> condition_values(rule_type, formula, value,
                                             min_value, max_value)])

\* add_conditional_format_rule after the metadata fetch, up to the
\* batchUpdate; colours, text styles and gradient values are left at None
add_conditional_format_rule_call(spreadsheet, a) ==
    LET grid_ranges == grid_ranges_of(spreadsheet, a.ranges, << >>)
    IN  IF ~grid_ranges.ok THEN grid_ranges
        ELSE IF a.rule_type = "gradient"
        THEN Return(BatchUpdate(<<
                 [addConditionalFormatRule |-> [rule |->
                     [ranges |-> grid_ranges.value,
                      gradientRule |-> [minpoint |-> [type |-> "MIN"],
                                        maxpoint |-> [type |-> "MAX"]]]]] >>))
        ELSE LET condition == rule_condition(a.rule_type, a.formula, a.value,
                                             a.min_value, a.max_value)
             IN  IF ~condition.ok THEN condition
                 ELSE Return(BatchUpdate(<<
                          [addConditionalFormatRule |-> [rule |->
                              [ranges |-> grid_ranges.value,
                               booleanRule |-> [condition |-> condition.value]]]] >>))

RangeLists ==
    { << << "A", "1", ":", "B", "2" >> >>,
      << << "A", "1", ":", "B", "2" >>, DataSheet \o << "!", "A", "1" >> >>,
      << DataSheet \o << "!", "A", "1" >>, NopeSheet \o << "!", "A", "1" >> >>,
      << DefaultSheet \o << "!", "A", ":", "D" >> >> }

RuleArgs ==
    [ranges : RangeLists, rule_type : RuleTypes,
     formula : { PNone, PStr(<< "=", "A", "1" >>) },
     value : { PNone, PInt(0), PStr(<< "x" >>) },
     min_value : { PNone, PInt(1) }, max_value : { PNone, PInt(5) }]

AddConditionalFormatRuleFetch ==
    /\ pc = "idle"
    /\ \E a \in RuleArgs, ok \in BOOLEAN :
          /\ inv' = [tool |-> "add_conditional_format_rule", args |-> a]
          /\ FetchMetadata(ok, [spreadsheet |-> doc],
                           "add_conditional_format_rule:fetched")
    /\ UNCHANGED << fn, arg, ret, doc >>

AddConditionalFormatRuleUpdate ==
    /\ pc = "add_conditional_format_rule:fetched"
    /\ \E ok \in BOOLEAN :
          LET c == add_conditional_format_rule_call(local.spreadsheet, inv.args)
          IN  IF c.ok
              THEN IssueLast(c.value, ok, "Successfully added conditional formatting rule")
              ELSE RaiseNow(c)
    /\ UNCHANGED << fn, arg, ret, doc, inv, local >>

\* delete_conditional_format_rule after the metadata fetch
delete_conditional_format_rule_call(spreadsheet, sheet_name, rule_index) ==
    LET sheet_id == get_sheet_id_by_name(spreadsheet, sheet_name)
    IN  IF ~sheet_id.ok THEN sheet_id
        ELSE Return(BatchUpdate(<<
                 [deleteConditionalFormatRule |->
                     [sheetId |-> sheet_id.value, index |-> rule_index]] >>))

DeleteConditionalFormatRuleFetch ==
    /\ pc = "idle"
    /\ \E sheet_name \in { DefaultSheet, DataSheet, NopeSheet },
          rule_index \in 0..2, ok \in BOOLEAN :
          /\ inv' = [tool |-> "delete_conditional_format_rule",
                     sheet_name |-> sheet_name, rule_index |-> rule_index]
          /\ FetchMetadata(ok, [spreadsheet |-> doc],
                           "delete_conditional_format_rule:fetched")
    /\ UNCHANGED << fn, arg, ret, doc >>

DeleteConditionalFormatRuleUpdate ==
    /\ pc = "delete_conditional_format_rule:fetched"
    /\ \E ok \in BOOLEAN :
          LET c == delete_conditional_format_rule_call(local.spreadsheet,
                       inv.sheet_name, inv.rule_index)
          IN  IF c.ok
              THEN IssueLast(c.value, ok, "Successfully deleted conditional formatting rule")
              ELSE RaiseNow(c)
    /\ UNCHANGED << fn, arg, ret, doc, inv, local >>

\* the styles of apply_table_style that differ in text colour and borders
Styles == { "professional", "dark", "striped" }

\* selected_style.get("border_style"): None only for "striped"
HasBorders(style) == style # "striped"

\* range(a, b)
PyRange(a, b) == IF b > a THEN [i \in 1..(b - a) |-> a + i - 1] ELSE << >>

\* the repeatCell request of one data row
row_request(grid_range, sheet_id, style, data_start_row, row_idx) ==
    [repeatCell |->
        [range |-> [sheetId          |-> sheet_id,
                    startRowIndex    |-> row_idx,
                    endRowIndex      |-> row_idx + 1,
                    startColumnIndex |-> Get(grid_range, "startColumnIndex", 0),
                    endColumnIndex   |-> Get(grid_range, "endColumnIndex", 1)],
         is_even |-> ((row_idx - data_start_row) % 2 = 1),
         fields  |-> << "backgroundColor" >>
                        \o (IF style = "dark" THEN << "textFormat" >> ELSE << >>)
                        \o (IF HasBorders(style) THEN << "borders" >> ELSE << >>)]]

\* the repeatCell request of the header row
header_request(grid_range, sheet_id) ==
    [repeatCell |->
        [range |-> [sheetId          |-> sheet_id,
                    startRowIndex    |-> Get(grid_range, "startRowIndex", 0),
                    endRowIndex      |-> Get(grid_range, "startRowIndex", 0) + 1,
                    startColumnIndex |-> Get(grid_range, "startColumnIndex", 0),
                    endColumnIndex   |-> Get(grid_range, "endColumnIndex", 1)],
         is_header |-> TRUE,
         fields |-> << "backgroundColor", "textFormat", "horizontalAlignment",
                       "verticalAlignment", "borders" >>]]

\* the repeatCell requests of the data rows data_start_row .. data_end_row - 1
data_row_requests(grid_range, sheet_id, style, data_start_row, data_end_row) ==
    [i \in 1..Len(PyRange(data_start_row, data_end_row)) |->
        row_request(grid_range, sheet_id, style, data_start_row,
                    PyRange(data_start_row, data_end_row)[i])]

\* the autoResizeDimensions request
resize_request(grid_range, sheet_id) ==
    [autoResizeDimensions |-> [dimensions |->
        [sheetId    |-> sheet_id,
         dimension  |-> "COLUMNS",
         startIndex |-> Get(grid_range, "startColumnIndex", 0),
         endIndex   |-> Get(grid_range, "endColumnIndex", 1)]]]

\* apply_table_style whose data rows start at the header row
apply_table_style_requests_headerAsData(grid_range, sheet_id, style, has_header, auto_resize_columns) ==
    (IF has_header THEN << header_request(grid_range, sheet_id) >> ELSE << >>)
    \o data_row_requests(grid_range, sheet_id, style,
           Get(grid_range, "startRowIndex", 0),
           Get(grid_range, "endRowIndex", 1))
    \o (IF auto_resize_columns THEN << resize_request(grid_range, sheet_id) >>
        ELSE << >>)

\* the requests list apply_table_style builds for a resolved sheet
apply_table_style_requests(grid_range, sheet_id, style, has_header, auto_resize_columns) ==
    (IF has_header THEN << header_request(grid_range, sheet_id) >> ELSE << >>)
    \o data_row_requests(grid_range, sheet_id, style,
           IF has_header THEN Get(grid_range, "startRowIndex", 0) + 1
           ELSE Get(grid_range, "startRowIndex", 0),
           Get(grid_range, "endRowIndex", 1))
    \o (IF auto_resize_columns THEN << resize_request(grid_range, sheet_id) >>
        ELSE << >>)

\* apply_table_style after the metadata fetch, up to the batchUpdate
apply_table_style_call(spreadsheet, sheet_name, cell_range, style, has_header, auto_resize_columns) ==
    LET sheet_id == get_sheet_id_by_name(spreadsheet, sheet_name)
    IN  IF ~sheet_id.ok THEN sheet_id
        ELSE Return(BatchUpdate(apply_table_style_requests(
                 convert_a1_to_grid_range(cell_range, sheet_id.value),
                 sheet_id.value, style, has_header, auto_resize_columns)))

\* range arguments of apply_table_style: also a range of three rows and a
\* range whose end lies before its start
TableRanges ==
    ToolRanges \cup { << "B", "2", ":", "C", "4" >>, << "B", "2", ":", "A", "1" >> }

ApplyTableStyleFetch ==
    /\ pc = "idle"
    /\ \E range \in TableRanges, style \in Styles, has_header \in BOOLEAN,
          auto_resize_columns \in BOOLEAN, ok \in BOOLEAN :
          /\ inv' = [tool |-> "apply_table_style", range |-> range,
                     style |-> style, has_header |-> has_header,
                     auto_resize_columns |-> auto_resize_columns]
          /\ FetchMetadata(ok, [sheet_name  |-> parse_range(range)[1],
                                cell_range  |-> parse_range(range)[2],
                                spreadsheet |-> doc],
                           "apply_table_style:fetched")
    /\ UNCHANGED << fn, arg, ret, doc >>

ApplyTableStyleUpdate ==
    /\ pc = "apply_table_style:fetched"
    /\ \E ok \in BOOLEAN :
          LET c == apply_table_style_call(local.spreadsheet, local.sheet_name,
                       local.cell_range, inv.style, inv.has_header,
                       inv.auto_resize_columns)
          IN  IF c.ok
              THEN IssueLast(c.value, ok, "Successfully applied table style")
              ELSE RaiseNow(c)
    /\ UNCHANGED << fn, arg, ret, doc, inv, local >>

\* position of the first sheet of the metadata whose sheetId is sheet_id,
\* 0 if there is none (sheet_props stays None)
RECURSIVE SheetById(_, _, _)
SheetById(sheets, sheet_id, i) ==
    IF i > Len(sheets) THEN 0
    ELSE IF sheets[i].properties.sheetId = sheet_id THEN i
    ELSE SheetById(sheets, sheet_id, i + 1)

\* indices of the rules with some range on sheet_id, in decreasing order:
\* sorted(rules_to_delete, reverse=True)
RECURSIVE rules_to_delete_desc(_, _, _)
rules_to_delete_desc(rules, sheet_id, idx) ==
    IF idx < 0 THEN << >>
    ELSE LET ranges == Get(rules[idx + 1], "ranges", << >>)
             hit == \E k \in 1..Len(ranges) :
                        "sheetId" \in DOMAIN ranges[k] /\ ranges[k].sheetId = sheet_id
         IN  (IF hit THEN << idx >> ELSE << >>)
                 \o rules_to_delete_desc(rules, sheet_id, idx - 1)

\* the fields of the default format that reset_to_default_formatting writes
ResetFields ==
    << "backgroundColor", "textFormat", "horizontalAlignment",
       "verticalAlignment", "wrapStrategy", "numberFormat", "borders" >>

\* the delete requests in the opposite order of the indices
delete_requests_reversed(sheet_id, idxs) ==
    [i \in 1..Len(idxs) |->
        [deleteConditionalFormatRule |->
            [sheetId |-> sheet_id, index |-> idxs[Len(idxs) + 1 - i]]]]

\* the deleteConditionalFormatRule requests for the rule indices idxs
delete_requests(sheet_id, idxs) ==
    [i \in 1..Len(idxs) |->
        [deleteConditionalFormatRule |-> [sheetId |-> sheet_id, index |-> idxs[i]]]]

rule_indices_firstOnly(sheets, found, sheet_id) ==
    IF found > 0 /\ "conditionalFormats" \in DOMAIN sheets[found]
    THEN SubSeq(rules_to_delete_desc(sheets[found].conditionalFormats, sheet_id,
                                     Len(sheets[found].conditionalFormats) - 1), 1, 1)
    ELSE << >>

\* the rule indices to delete: none unless the metadata has the sheet and
\* the sheet has a "conditionalFormats" key
rule_indices(sheets, found, sheet_id) ==
    IF found > 0 /\ "conditionalFormats" \in DOMAIN sheets[found]
    THEN rules_to_delete_desc(sheets[found].conditionalFormats, sheet_id,
                              Len(sheets[found].conditionalFormats) - 1)
    ELSE << >>

\* the requests list reset_to_default_formatting builds for a resolved sheet
reset_requests(spreadsheet, grid_range, sheet_id, clear_conditional_formatting) ==
    << [repeatCell |->
           [range  |-> grid_range,
            cell   |-> [userEnteredFormat |-> "default_format"],
            fields |-> ResetFields]] >>
    \o (IF clear_conditional_formatting
        THEN delete_requests(sheet_id,
                 rule_indices(Get(spreadsheet, "sheets", << >>),
                              SheetById(Get(spreadsheet, "sheets", << >>), sheet_id, 1),
                              sheet_id))
        ELSE << >>)

\* reset_to_default_formatting after the metadata fetch, up to the batchUpdate
reset_to_default_formatting_call(spreadsheet, sheet_name, cell_range, clear_conditional_formatting) ==
    LET sheet_id == get_sheet_id_by_name(spreadsheet, sheet_name)
    IN  IF ~sheet_id.ok THEN sheet_id
        ELSE Return(BatchUpdate(reset_requests(spreadsheet,
                 convert_a1_to_grid_range(cell_range, sheet_id.value),
                 sheet_id.value, clear_conditional_formatting)))

\* ---- the remote service: the effect of the mutating calls of
\* reset_to_default_formatting on the document it holds ----

\* position of the first sheet with the title, 0 if there is none
RECURSIVE SheetByTitle(_, _, _)
SheetByTitle(sheets, title, i) ==
    IF i > Len(sheets) THEN 0
    ELSE IF sheets[i].properties.title = title THEN i
    ELSE SheetByTitle(sheets, title, i + 1)

\* the cell (r, c), 0-based, lies in the GridRange; a side without an index
\* is open
InGridRange(gr, r, c) ==
    /\ "startRowIndex" \in DOMAIN gr => r >= gr.startRowIndex
    /\ "endRowIndex" \in DOMAIN gr => r < gr.endRowIndex
    /\ "startColumnIndex" \in DOMAIN gr => c >= gr.startColumnIndex
    /\ "endColumnIndex" \in DOMAIN gr => c < gr.endColumnIndex

\* s is a column range <letters>:<letters>
IsColumns(s) ==
    /\ Cardinality(Colons(s)) = 1
    /\ \A i \in 1..Len(s) : IsUpper(s[i]) \/ s[i] = ":"
    /\ s[1] # ":" /\ s[Len(s)] # ":"

\* the cell (r, c), 0-based, lies in the cell range of an A1 range as the
\* service reads it: a rectangle of the grammar, or whole columns
InA1(cell_range, r, c) ==
    IF InGrammar(cell_range) THEN InGridRange(Rectangle(cell_range, 0), r, c)
    ELSE IF IsColumns(cell_range)
    THEN LET k == CHOOSE i \in Colons(cell_range) : TRUE
         IN  /\ c + 1 >= column_letter_to_index(SubSeq(cell_range, 1, k - 1)) + 1
             /\ c + 1 <= column_letter_to_index(
                             SubSeq(cell_range, k + 1, Len(cell_range))) + 1
    ELSE FALSE

\* the cell without the key
WithoutKey(cell, key) == [k \in DOMAIN cell \ { key } |-> cell[k]]

\* the cell (r, c) lies in the range of a request: a GridRange, or the cell
\* range of an A1 range
InRange(range, r, c) ==
    IF "a1" \in DOMAIN range THEN InA1(range.a1, r, c)
    ELSE InGridRange(range.grid, r, c)

\* the rows with the key removed from every cell of the range
ClearCells(rows, range, key) ==
    [i \in 1..Len(rows) |->
        IF "values" \in DOMAIN rows[i]
        THEN [rows[i] EXCEPT !.values =
                 [j \in 1..Len(rows[i].values) |->
                     IF InRange(range, i - 1, j - 1) THEN WithoutKey(rows[i].values[j], key)
                     ELSE rows[i].values[j]]]
        ELSE rows[i]]

\* the sheet with its grid rows replaced
WithRows(sheet, rows) == [sheet EXCEPT !.data = << [rowData |-> rows] >>]

\* the sheet without its rule at index idx (0-based); a sheet without rules
\* has no "conditionalFormats" key
WithoutRule(sheet, idx) ==
    LET rules == sheet.conditionalFormats
        rest  == SubSeq(rules, 1, idx) \o SubSeq(rules, idx + 2, Len(rules))
    IN  IF Len(rest) = 0 THEN WithoutKey(sheet, "conditionalFormats")
        ELSE [sheet EXCEPT !.conditionalFormats = rest]

\* updateSheetProperties with the field "title": the sheet is renamed; a
\* title that another sheet has is rejected
RenameSheet(d, sheet_id, title) ==
    LET k == SheetById(d.sheets, sheet_id, 1)
    IN  IF k = 0 \/ SheetByTitle(d.sheets, title, 1) \notin { 0, k }
        THEN [ok |-> FALSE]
        ELSE [ok |-> TRUE,
              doc |-> [d EXCEPT !.sheets[k].properties.title = title]]

\* deleteSheet: the sheet leaves the document; the last sheet cannot be
\* deleted
DeleteSheet(d, sheet_id) ==
    LET k == SheetById(d.sheets, sheet_id, 1)
    IN  IF k = 0 \/ Len(d.sheets) = 1 THEN [ok |-> FALSE]
        ELSE [ok |-> TRUE,
              doc |-> [d EXCEPT !.sheets = SubSeq(d.sheets, 1, k - 1)
                                           \o SubSeq(d.sheets, k + 1, Len(d.sheets))]]

\* addSheet: an empty sheet is appended; an id or a title in use is rejected
AddSheet(d, sheet_id, title) ==
    IF SheetById(d.sheets, sheet_id, 1) # 0 \/ SheetByTitle(d.sheets, title, 1) # 0
    THEN [ok |-> FALSE]
    ELSE [ok |-> TRUE,
          doc |-> [d EXCEPT !.sheets = Append(d.sheets, Sheet(title, sheet_id, NoRows))]]

\* one request of a batchUpdate applied to the document: a sheet renamed,
\* deleted or added; repeatCell with
\* the default format leaves the cells of the range without a format of
\* their own; deleteConditionalFormatRule removes the rule at the index.
\* A request that names no sheet or no rule of the document is rejected.
ApplyRequest(d, req) ==
    IF "updateSheetProperties" \in DOMAIN req
    THEN RenameSheet(d, req.updateSheetProperties.properties.sheetId,
                     req.updateSheetProperties.properties.title)
    ELSE IF "deleteSheet" \in DOMAIN req
    THEN DeleteSheet(d, req.deleteSheet.sheetId)
    ELSE IF "addSheet" \in DOMAIN req
    THEN AddSheet(d, req.addSheet.properties.sheetId, req.addSheet.properties.title)
    ELSE IF "repeatCell" \in DOMAIN req
    THEN LET k == SheetById(d.sheets, req.repeatCell.range.sheetId, 1)
         IN  IF k = 0 THEN [ok |-> FALSE]
             ELSE [ok |-> TRUE,
                   doc |-> [d EXCEPT !.sheets[k] =
                              WithRows(d.sheets[k],
                                  ClearCells(d.sheets[k].data[1].rowData,
                                      [grid |-> req.repeatCell.range],
                                      "effectiveFormat"))]]
    ELSE LET del == req.deleteConditionalFormatRule
             k   == SheetById(d.sheets, del.sheetId, 1)
         IN  IF k = 0 \/ "conditionalFormats" \notin DOMAIN d.sheets[k]
             THEN [ok |-> FALSE]
             ELSE IF del.index >= Len(d.sheets[k].conditionalFormats)
             THEN [ok |-> FALSE]
             ELSE [ok |-> TRUE,
                   doc |-> [d EXCEPT !.sheets[k] = WithoutRule(d.sheets[k], del.index)]]

\* the requests of a batchUpdate applied in order
RECURSIVE ApplyRequests(_, _)
ApplyRequests(d, requests) ==
    IF Len(requests) = 0 THEN [ok |-> TRUE, doc |-> d]
    ELSE IF ~ApplyRequest(d, Head(requests)).ok THEN [ok |-> FALSE]
    ELSE ApplyRequests(ApplyRequest(d, Head(requests)).doc, Tail(requests))

\* values.clear applied to the document: the cells of the range lose their
\* value
ApplyClear(d, range) ==
    LET k == SheetByTitle(d.sheets, parse_range(range)[1], 1)
    IN  IF k = 0 THEN d
        ELSE [d EXCEPT !.sheets[k] =
                 WithRows(d.sheets[k],
                     ClearCells(d.sheets[k].data[1].rowData,
                         [a1 |-> parse_range(range)[2]],
                         "formattedValue"))]

\* a mutating call that took effect, applied to the document; a batchUpdate
\* takes effect as a whole or not at all
ApplyCall(d, call) ==
    CASE call.api = "spreadsheets.batchUpdate" ->
            IF ApplyRequests(d, call.requests).ok
            THEN ApplyRequests(d, call.requests).doc ELSE d
      [] call.api = "values.clear" -> ApplyClear(d, call.range)
      [] OTHER -> d

RECURSIVE ApplyAll(_, _)
ApplyAll(d, cs) ==
    IF Len(cs) = 0 THEN d ELSE ApplyAll(ApplyCall(d, Head(cs)), Tail(cs))

\* the document the service holds: the initial document and the mutating
\* calls that took effect since
Remote == ApplyAll(doc, applied)

ResetToDefaultFormattingFetch ==
    /\ pc = "idle"
    /\ \E range \in ToolRanges, preserve_values \in BOOLEAN,
          clear_conditional_formatting \in BOOLEAN, ok \in BOOLEAN :
          /\ inv' = [tool |-> "reset_to_default_formatting", range |-> range,
                     preserve_values |-> preserve_values,
                     clear_conditional_formatting |-> clear_conditional_formatting]
          /\ FetchMetadata(ok, [sheet_name  |-> parse_range(range)[1],
                                cell_range  |-> parse_range(range)[2],
                                spreadsheet |-> Remote],
                           "reset_to_default_formatting:fetched")
    /\ UNCHANGED << fn, arg, ret, doc >>

\* the same invocation once more, after the first one is over: the metadata
\* are fetched again; the document as the first invocation left it and the
\* outcome of the first invocation are kept for comparison
ResetToDefaultFormattingAgain ==
    /\ pc = "done"
    /\ InvTool = "reset_to_default_formatting"
    /\ "once" \notin DOMAIN inv
    /\ \E ok \in BOOLEAN :
          /\ inv' = [tool |-> inv.tool, range |-> inv.range,
                     preserve_values |-> inv.preserve_values,
                     clear_conditional_formatting |-> inv.clear_conditional_formatting,
                     once |-> Remote, first |-> outcome]
          /\ FetchMetadata(ok, [sheet_name  |-> parse_range(inv.range)[1],
                                cell_range  |-> parse_range(inv.range)[2],
                                spreadsheet |-> Remote],
                           "reset_to_default_formatting:fetched")
    /\ UNCHANGED << fn, arg, ret, doc >>

\* the batchUpdate for formatting; the handler goes on to clear the values
\* when preserve_values is false
ResetToDefaultFormattingUpdate ==
    /\ pc = "reset_to_default_formatting:fetched"
    /\ \E ok \in BOOLEAN :
          LET c == reset_to_default_formatting_call(local.spreadsheet,
                       local.sheet_name, local.cell_range,
                       inv.clear_conditional_formatting)
          IN  IF ~c.ok THEN RaiseNow(c)
              ELSE IF inv.preserve_values
              THEN IssueLast(c.value, ok, "Successfully reset formatting")
              ELSE /\ Issue(c.value, ok)
                   /\ IF ok
                      THEN /\ pc' = "reset_to_default_formatting:formatted"
                           /\ outcome' = outcome
                      ELSE /\ pc' = "done"
                           /\ outcome' = HttpError
    /\ UNCHANGED << fn, arg, ret, doc, inv, local >>

\* values().clear(range=f"{sheet_name}!{cell_range}"), a separate remote call
ResetToDefaultFormattingClear ==
    /\ pc = "reset_to_default_formatting:formatted"
    /\ \E ok \in BOOLEAN :
          IssueLast([api |-> "values.clear",
                     range |-> local.sheet_name \o << "!" >> \o local.cell_range],
                    ok, "Successfully reset formatting")
    /\ UNCHANGED << fn, arg, ret, doc, inv, local >>

-----------------------------------------------------------------------------
(* get_data_boundaries *)

Inf == 1000000000   \* float('inf'): above every row and column index

SetMax(S) == CHOOSE x \in S : \A y \in S : y <= x
SetMin(S) == CHOOSE x \in S : \A y \in S : x <= y

RowCells(row) == Get(row, "values", << >>)

\* number of cells of the row up to its last cell with a value
LastValued(row) ==
    SetMax({ 0 } \cup { c \in 1..Len(RowCells(row)) :
                          "formattedValue" \in DOMAIN RowCells(row)[c] })

\* the remote service's answer to values().get(range="<title>!A1:ZZ10000"):
\* the rows up to the last row with a value, each cut after its last value,
\* a cell without value read as ""; no "values" key when nothing has a value
ValuesGetResponse(d, title) ==
    LET i    == SheetByTitle(d.sheets, title, 1)
        rows == d.sheets[i].data[1].rowData
        last == SetMax({ 0 } \cup { r \in 1..Len(rows) : LastValued(rows[r]) > 0 })
    IN  IF last = 0 THEN EmptyDict
        ELSE [values |->
                [r \in 1..last |->
                    [c \in 1..LastValued(rows[r]) |->
                        IF "formattedValue" \in DOMAIN RowCells(rows[r])[c]
                        THEN RowCells(rows[r])[c].formattedValue ELSE ""]]]

\* the remote service's answer to get(ranges=[...], includeGridData=True,
\* fields="sheets.data.rowData.values(formattedValue,effectiveFormat)")
GridGetResponse(d, title) ==
    LET i == SheetByTitle(d.sheets, title, 1)
    IN  [sheets |-> << [data |-> d.sheets[i].data] >>]

\* the text of the boundaries report
boundaries_result(min_row, max_row, min_col, max_col, cell_count, sheet_title, include_empty_cells) ==
    IF cell_count = 0 THEN Result("No data found in sheet")
    ELSE [kind |-> "result", text |-> "Data boundaries for sheet",
          sheet_title |-> sheet_title,
          data_range |-> column_index_to_letter(min_col) \o IntToStr(min_row + 1)
                            \o << ":" >> \o column_index_to_letter(max_col)
                            \o IntToStr(max_row + 1),
          rows_with_data |-> (max_row + 1) - (min_row + 1) + 1,
          cols_with_data |-> max_col - min_col + 1,
          cell_count |-> cell_count,
          first_cell |-> column_index_to_letter(min_col) \o IntToStr(min_row + 1),
          last_cell  |-> column_index_to_letter(max_col) \o IntToStr(max_row + 1),
          note |-> include_empty_cells]

\* the branch of get_data_boundaries that reads only the values
boundaries_from_values(result, sheet_title) ==
    LET values == Get(result, "values", << >>)
        P == { rc \in (1..Len(values)) \X (1..SetMax({ 0 } \cup { Len(values[r]) : r \in 1..Len(values) })) :
                 rc[2] <= Len(values[rc[1]]) /\ values[rc[1]][rc[2]] # "" }
    IN  IF Len(values) = 0 THEN Result("No data found in sheet")
        ELSE boundaries_result(0, Len(values) - 1,
                 IF P = {} THEN 0 ELSE SetMin({ rc[2] - 1 : rc \in P }),
                 SetMax({ 0 } \cup { rc[2] - 1 : rc \in P }),
                 Cardinality(P), sheet_title, FALSE)

\* the branch of get_data_boundaries that reads the grid with formats
boundaries_from_grid(result, sheet_title) ==
    LET sheet_data == Get(Get(result, "sheets", << EmptyDict >>)[1], "data", << EmptyDict >>)[1]
        row_data   == Get(sheet_data, "rowData", << >>)
        width      == SetMax({ 0 } \cup { Len(RowCells(row_data[r])) : r \in 1..Len(row_data) })
        Cell(rc)   == RowCells(row_data[rc[1]])[rc[2]]
        has_value(rc)  == "formattedValue" \in DOMAIN Cell(rc)
        has_format(rc) == "effectiveFormat" \in DOMAIN Cell(rc)
                              /\ DOMAIN Cell(rc).effectiveFormat # {}
        All == { rc \in (1..Len(row_data)) \X (1..width) :
                   rc[2] <= Len(RowCells(row_data[rc[1]])) }
        P == { rc \in All : has_value(rc) \/ has_format(rc) }
    IN  boundaries_result(SetMin({ Inf } \cup { rc[1] - 1 : rc \in P }),
                          SetMax({ 0 } \cup { rc[1] - 1 : rc \in P }),
                          SetMin({ Inf } \cup { rc[2] - 1 : rc \in P }),
                          SetMax({ 0 } \cup { rc[2] - 1 : rc \in P }),
                          Cardinality({ rc \in P : has_value(rc) }),
                          sheet_title, TRUE)

\* range_to_check = f"{sheet_title}!A1:ZZ10000"
range_to_check(sheet_title) ==
    sheet_title \o << "!", "A", "1", ":", "Z", "Z", "1", "0", "0", "0", "0" >>

\* get_data_boundaries up to its second await: the metadata fetch and the
\* choice of the target sheet
GetDataBoundariesFetch ==
    /\ pc = "idle"
    /\ \E sheet_name \in { PNone, PStr(DefaultSheet), PStr(DataSheet), PStr(NopeSheet) },
          include_empty_cells \in BOOLEAN, ok \in BOOLEAN :
          /\ inv' = [tool |-> "get_data_boundaries", sheet_name |-> sheet_name,
                     include_empty_cells |-> include_empty_cells]
          /\ Issue([api |-> "spreadsheets.get", includeGridData |-> FALSE], ok)
          /\ LET sheets == Get(doc, "sheets", << >>)
                 i == IF Truthy(sheet_name)
                      THEN SheetByTitle(sheets, sheet_name.v, 1) ELSE 1
             IN  IF ~ok
                 THEN /\ outcome' = HttpError /\ pc' = "done" /\ local' = local
                 ELSE IF Len(sheets) = 0
                 THEN /\ outcome' = Result("No sheets found in the spreadsheet.")
                      /\ pc' = "done" /\ local' = local
                 ELSE IF i = 0
                 THEN /\ outcome' = Result("Sheet not found in spreadsheet.")
                      /\ pc' = "done" /\ local' = local
                 ELSE /\ outcome' = outcome
                      /\ pc' = "get_data_boundaries:fetched"
                      /\ local' = [sheet_title |-> sheets[i].properties.title]
    /\ UNCHANGED << fn, arg, ret, doc >>

\* the second remote read, inside try / except Exception: a failure is
\* caught and returned as the string "Error analyzing sheet data: ..."
GetDataBoundariesRead ==
    /\ pc = "get_data_boundaries:fetched"
    /\ \E ok \in BOOLEAN :
          /\ Issue(IF inv.include_empty_cells
                   THEN [api |-> "spreadsheets.get", includeGridData |-> TRUE,
                         ranges |-> << range_to_check(local.sheet_title) >>]
                   ELSE [api |-> "values.get",
                         range |-> range_to_check(local.sheet_title)],
                   ok)
          /\ outcome' =
                IF ~ok THEN Result("Error analyzing sheet data")
                ELSE IF inv.include_empty_cells
                THEN boundaries_from_grid(GridGetResponse(doc, local.sheet_title),
                                          local.sheet_title)
                ELSE boundaries_from_values(ValuesGetResponse(doc, local.sheet_title),
                                            local.sheet_title)
          /\ pc' = "done"
    /\ UNCHANGED << fn, arg, ret, doc, inv, local >>

-----------------------------------------------------------------------------
(* Tool invocations on a remote spreadsheet *)

InitTools ==
    /\ fn = "none" /\ arg = None /\ ret = None
    /\ doc \in Documents
    /\ applied = << >>
    /\ pc = "idle"
    /\ inv = None
    /\ local = None
    /\ calls = << >>
    /\ outcome = NoOutcome

NextTools ==
    \/ ModifySheetValues
    \/ UpdateSheetValues
    \/ AppendSheetValues
    \/ BatchUpdateValues
    \/ FormatCellsFetch
    \/ FormatCellsUpdate
    \/ AddConditionalFormatRuleFetch
    \/ AddConditionalFormatRuleUpdate
    \/ DeleteConditionalFormatRuleFetch
    \/ DeleteConditionalFormatRuleUpdate
    \/ ApplyTableStyleFetch
    \/ ApplyTableStyleUpdate
    \/ ResetToDefaultFormattingFetch
    \/ ResetToDefaultFormattingUpdate
    \/ ResetToDefaultFormattingClear
    \/ GetDataBoundariesFetch
    \/ GetDataBoundariesRead

SpecTools == InitTools /\ [][NextTools]_vars

\* reset_to_default_formatting invoked, and invoked once more with the same
\* arguments
NextReset ==
    \/ ResetToDefaultFormattingFetch
    \/ ResetToDefaultFormattingUpdate
    \/ ResetToDefaultFormattingClear
    \/ ResetToDefaultFormattingAgain

SpecReset == InitTools /\ [][NextReset]_vars

-----------------------------------------------------------------------------
(* reset_to_default_formatting next to a concurrent actor on the same
   spreadsheet *)

MaxActorSteps == 2   \* most requests of the concurrent actor in a run
NewSheetId == 9      \* the id of a sheet the concurrent actor creates

SheetTitles == { DefaultSheet, DataSheet, NopeSheet }

\* the requests of the concurrent actor
RenameRequests ==
    { [updateSheetProperties |->
          [properties |-> [sheetId |-> id, title |-> title], fields |-> "title"]] :
        id \in { 0, 3, 7, NewSheetId }, title \in SheetTitles }
DeleteRequests ==
    { [deleteSheet |-> [sheetId |-> id]] : id \in { 0, 3, 7, NewSheetId } }
AddRequests ==
    { [addSheet |-> [properties |-> [sheetId |-> NewSheetId, title |-> title]]] :
        title \in SheetTitles }

\* the requests of the concurrent actor that took effect so far
ActorSteps ==
    Cardinality({ i \in 1..Len(applied) :
                    /\ applied[i].api = "spreadsheets.batchUpdate"
                    /\ "repeatCell" \notin DOMAIN applied[i].requests[1] })

\* the remote service accepts the call on the document d
Accepted(d, call) ==
    CASE call.api = "spreadsheets.batchUpdate" -> ApplyRequests(d, call.requests).ok
      [] call.api = "values.clear" ->
            SheetByTitle(d.sheets, parse_range(call.range)[1], 1) > 0
      [] OTHER -> TRUE

\* a request of the concurrent actor takes effect while the handler is
\* suspended at a remote call
ActorActs(requests) ==
    /\ pc \in { "reset_to_default_formatting:fetched",
                "reset_to_default_formatting:formatted" }
    /\ ActorSteps < MaxActorSteps
    /\ \E req \in requests :
          /\ ApplyRequest(Remote, req).ok
          /\ applied' = Append(applied, BatchUpdate(<< req >>))
    /\ UNCHANGED << fn, arg, ret, doc, pc, inv, local, calls, outcome >>

ActorRenames == ActorActs(RenameRequests)
ActorDeletes == ActorActs(DeleteRequests)
ActorCreates == ActorActs(AddRequests)

\* the handler's mutating calls: one that succeeds was accepted by the
\* remote service on the document it held then
ResetToDefaultFormattingUpdateRaced ==
    /\ ResetToDefaultFormattingUpdate
    /\ applied' # applied => Accepted(Remote, applied'[Len(applied')])
ResetToDefaultFormattingClearRaced ==
    /\ ResetToDefaultFormattingClear
    /\ applied' # applied => Accepted(Remote, applied'[Len(applied')])

NextRace ==
    \/ ResetToDefaultFormattingFetch
    \/ ResetToDefaultFormattingUpdateRaced
    \/ ResetToDefaultFormattingClearRaced
    \/ ActorRenames
    \/ ActorDeletes
    \/ ActorCreates

SpecRace == InitTools /\ [][NextRace]_vars

-----------------------------------------------------------------------------
(* Properties of the tool invocations *)

\* the remote calls that write values
WriteApis == { "values.update", "values.append", "values.batchUpdate" }

\* the positions of the log of remote calls that hold a call of apis
CallsOf(apis) == { i \in 1..Len(calls) : calls[i].call.api \in apis }

\* a single-range write call carries the caller's range and the normalized
\* form of the caller's values, which normalize without error
PayloadIsNormalized(call, range, values) ==
    /\ validate_2d_array(values).ok
    /\ call.values = validate_2d_array(values).value
    /\ call.range = range

\* a batch write call carries one entry per update, in order, each with the
\* update's range and the normalized form of its values
BatchPayloadIsNormalized(call, updates) ==
    /\ Len(call.data) = Len(updates)
    /\ \A k \in 1..Len(updates) :
          /\ { "range", "values" } \subseteq DOMAIN updates[k]
          /\ PayloadIsNormalized(call.data[k], updates[k].range, updates[k].values)

\* C7: in modify_sheet_values (write mode), update_sheet_values,
\* append_sheet_values and batch_update_values, every write call that reaches
\* the remote service carries exactly the normalized form of the caller's
\* values (per entry for a batch), and no write call is issued when the
\* normalization of the values (of some entry) fails.
C7_WritePayloadIsNormalized ==
    /\ InvTool \in { "update_sheet_values", "append_sheet_values" }
          => /\ \A i \in CallsOf(WriteApis) :
                    PayloadIsNormalized(calls[i].call, inv.range, inv.values)
             /\ ~validate_2d_array(inv.values).ok => calls = << >>
    /\ (InvTool = "modify_sheet_values" /\ ~inv.clear_values)
          => /\ \A i \in CallsOf(WriteApis) :
                    PayloadIsNormalized(calls[i].call, inv.range, inv.values)
             /\ ~validate_2d_array(inv.values).ok => calls = << >>
    /\ InvTool = "batch_update_values"
          => /\ \A i \in CallsOf(WriteApis) :
                    BatchPayloadIsNormalized(calls[i].call, inv.updates)
             /\ (\E k \in 1..Len(inv.updates) :
                    /\ "values" \in DOMAIN inv.updates[k]
                    /\ ~validate_2d_array(inv.updates[k].values).ok)
                   => calls = << >>

\* a batch of two updates, a scalar and a flat list, reached the remote
\* service as [["a"]] and [["a", "b"]]
C7_Witness ==
    /\ pc = "done"
    /\ InvTool = "batch_update_values"
    /\ Len(inv.updates) = 2
    /\ "values" \in DOMAIN inv.updates[1] /\ inv.updates[1].values = Scalar("a")
    /\ "values" \in DOMAIN inv.updates[2]
    /\ inv.updates[2].values = List(<< Scalar("a"), Scalar("b") >>)
    /\ Len(calls) = 1 /\ calls[1].ok
    /\ calls[1].call.api = "values.batchUpdate"
    /\ calls[1].call.data[1].values = List(<< List(<< Scalar("a") >>) >>)
    /\ calls[1].call.data[2].values = List(<< List(<< Scalar("a"), Scalar("b") >>) >>)

\* the tools that fetch the metadata, resolve a sheet name and then mutate
FetchThenMutateTools ==
    { "format_cells", "add_conditional_format_rule",
      "delete_conditional_format_rule", "apply_table_style",
      "reset_to_default_formatting" }

\* the sheet names the current invocation asks for
RequestedSheets ==
    CASE InvTool \in { "format_cells", "apply_table_style",
                       "reset_to_default_formatting" }
            -> { parse_range(inv.range)[1] }
      [] InvTool = "delete_conditional_format_rule" -> { inv.sheet_name }
      [] InvTool = "add_conditional_format_rule"
            -> { parse_range(inv.args.ranges[k])[1] :
                    k \in 1..Len(inv.args.ranges) }
      [] OTHER -> {}

\* the remote spreadsheet has a sheet of that title
HasSheet(name) ==
    \E k \in 1..Len(doc.sheets) : doc.sheets[k].properties.title = name

SheetNotFound == [kind |-> "error", error |-> "ValueError", msg |-> "Sheet not found"]

\* C8: in format_cells, add_conditional_format_rule,
\* delete_conditional_format_rule, apply_table_style and
\* reset_to_default_formatting, a batchUpdate is issued only after the metadata
\* fetch has succeeded; none is issued when the fetch fails or when a
\* requested sheet name is not in the fetched metadata, and the invocation
\* then ends with an error, the not-found error when the fetch succeeded.
C8_MutateOnlyAfterResolvedFetch ==
    InvTool \in FetchThenMutateTools =>
        /\ \A i \in CallsOf({ "spreadsheets.batchUpdate" }) :
              /\ i > 1
              /\ calls[1].call.api = "spreadsheets.get" /\ calls[1].ok
              /\ \A name \in RequestedSheets : HasSheet(name)
        /\ (Len(calls) > 0 /\ ~calls[1].ok)
              => Len(calls) = 1 /\ pc = "done" /\ outcome.kind = "error"
        /\ (pc = "done" /\ \E name \in RequestedSheets : ~HasSheet(name))
              => /\ CallsOf(MutatingApis) = {}
                 /\ outcome.kind = "error"
                 /\ calls[1].ok => outcome = SheetNotFound

\* format_cells on "Nope!A1" fetched the metadata, found no sheet "Nope" and
\* ended with the not-found error after that single call
C8_Witness ==
    /\ pc = "done"
    /\ InvTool = "format_cells"
    /\ inv.range = NopeSheet \o << "!", "A", "1" >>
    /\ Len(doc.sheets) > 0
    /\ Len(calls) = 1 /\ calls[1].ok /\ calls[1].call.api = "spreadsheets.get"
    /\ applied = << >>
    /\ outcome = SheetNotFound

\* C9: in every tool, a remote call that fails is the last call of the
\* invocation (it is not issued again and no other call follows it) and the
\* invocation ends with an error outcome, not with a normal result string;
\* this includes the second remote read of get_data_boundaries.
C9_FailedCallEndsInError ==
    \A i \in 1..Len(calls) :
        ~calls[i].ok => /\ i = Len(calls)
                        /\ pc = "done"
                        /\ outcome.kind = "error"

\* the number of mutating remote calls the current invocation is made of
MutationsOf ==
    IF InvTool = "reset_to_default_formatting" /\ ~inv.preserve_values
    THEN 2 ELSE 1

\* C10: no invocation ends with a multi-step mutation partially applied: when
\* the invocation is over, either every mutating call it is made of has taken
\* effect on the remote document or none has (reset_to_default_formatting
\* with preserve_values false: the batchUpdate and the values.clear).
C10_AllOrNothing ==
    pc = "done" => Len(applied) \in { 0, MutationsOf }

\* the text "B3"
CellB3 == << "B", "3" >>

\* C12: get_data_boundaries without include_empty_cells on the sheet
\* "Sheet1" returns the 'No data found' result when the sheet holds no value,
\* and reports the data range "B3:B3", first and last data cell B3, when the
\* only value of the sheet is the "X" written to B3.
C12_BoundariesOfSheet1 ==
    (/\ pc = "done"
     /\ InvTool = "get_data_boundaries"
     /\ ~inv.include_empty_cells
     /\ Len(calls) = 2 /\ calls[2].ok
     /\ local.sheet_title = DefaultSheet)
    => \A k \in 1..Len(doc.sheets) :
          doc.sheets[k].properties.title = DefaultSheet
          => /\ doc.sheets[k].data[1].rowData = NoRows
                   => outcome = Result("No data found in sheet")
             /\ doc.sheets[k].data[1].rowData = XInB3
                   => /\ outcome.kind = "result"
                      /\ "data_range" \in DOMAIN outcome
                      /\ outcome.data_range = CellB3 \o << ":" >> \o CellB3
                      /\ outcome.first_cell = CellB3
                      /\ outcome.last_cell = CellB3

-----------------------------------------------------------------------------
(* Range texts outside the grammar, range analysis, colours: properties *)

\* C14: when the cell-range text is not of the grammar
\* <letters><digits>(:<letters><digits>)?, _convert_a1_to_grid_range returns
\* a GridRange with the sheetId and no row or column index.
C14_UnparsableGivesOnlySheetId ==
    (fn = "convert_a1_to_grid_range" /\ ~InGrammar(arg.a1_notation)) =>
        ret = [sheetId |-> arg.sheet_id]

\* C16: every GridRange _convert_a1_to_grid_range produces for a text of the
\* grammar has startRowIndex >= 0 and startColumnIndex >= 0.
C16_StartIndicesNonNegative ==
    (fn = "convert_a1_to_grid_range" /\ InGrammar(arg.a1_notation)) =>
        /\ ret.startRowIndex >= 0
        /\ ret.startColumnIndex >= 0

\* the cell-range part of a reference: what follows the first "!"
CellRangeOf(ref) ==
    IF \E i \in 1..Len(ref) : ref[i] = "!"
    THEN SubSeq(ref, (CHOOSE i \in 1..Len(ref) :
                         ref[i] = "!" /\ \A j \in 1..(i - 1) : ref[j] # "!") + 1,
                Len(ref))
    ELSE ref

\* r is two cells joined by one ":"
IsTwoCorners(r) ==
    /\ Cardinality(Colons(r)) = 1
    /\ IsCell(StartCell(r))
    /\ IsCell(EndCell(r))

\* C18: _analyze_range returns has_bounds = true with rows = endRow -
\* startRow + 1 and cols = endCol - startCol + 1 when both corners parse,
\* has_bounds = false with 1 row and 1 column for a single cell, and None for
\* every reference that is neither a cell nor two cells joined by ":".
C18_AnalyzeRange ==
    fn = "analyze_range" =>
        LET r == CellRangeOf(arg)
        IN  /\ IsTwoCorners(r)
                 => /\ "has_bounds" \in DOMAIN ret /\ ret.has_bounds
                    /\ ret.rows = RowOf(EndCell(r)) - RowOf(StartCell(r)) + 1
                    /\ ret.cols = ColOf(EndCell(r)) - ColOf(StartCell(r)) + 1
            /\ IsCell(r)
                 => /\ "has_bounds" \in DOMAIN ret /\ ~ret.has_bounds
                    /\ ret.rows = 1 /\ ret.cols = 1
            /\ (~IsTwoCorners(r) /\ ~IsCell(r)) => ret = None

\* h is "#"-optional followed by exactly six hexadecimal digits
SixHexDigits(h) == Len(h) = 6 /\ \A i \in 1..6 : IsHexDigit(h[i])
HexBody(h) == IF Len(h) > 0 /\ h[1] = "#" THEN Tail(h) ELSE h

\* the value of the byte pair of h that starts at position p
ByteAt(h, p) == 16 * HexVal(h[p]) + HexVal(h[p + 1])

\* C20: for every colour string h of six hexadecimal digits, with or without
\* a leading "#", in either letter case, _hex_to_rgb_dict(h) holds each byte
\* divided by 255 and _format_color of it is "#" followed by h in lower case.
C20_ColorRoundTrip ==
    (fn = "hex_to_rgb_dict" /\ SixHexDigits(HexBody(arg))) =>
        /\ ret.ok
        /\ ret.value = [red   |-> Frac(ByteAt(HexBody(arg), 1), 255),
                        green |-> Frac(ByteAt(HexBody(arg), 3), 255),
                        blue  |-> Frac(ByteAt(HexBody(arg), 5), 255)]
        /\ format_color(ret.value) = << "#" >> \o Lower(HexBody(arg))

\* "#FF0000" becomes red 255/255 and is displayed as "#ff0000"
C20_Witness ==
    /\ fn = "hex_to_rgb_dict"
    /\ arg = << "#", "F", "F", "0", "0", "0", "0" >>
    /\ ret.ok
    /\ ret.value.red = Frac(255, 255) /\ ret.value.green = Frac(0, 255)
    /\ format_color(ret.value) = << "#", "f", "f", "0", "0", "0", "0" >>


-----------------------------------------------------------------------------
(* Formatting and rule tools: properties *)

\* the inputs the documentation of _parse_boolean lists as true and as false
ListedTrue ==
    { PBool(TRUE), PInt(1), PStr(<< "t", "r", "u", "e" >>), PStr(<< "1" >>),
      PStr(<< "y", "e", "s" >>), PStr(<< "o", "n" >>) }
ListedFalse ==
    { PBool(FALSE), PInt(0), PStr(<< "f", "a", "l", "s", "e" >>), PStr(<< "0" >>),
      PStr(<< "n", "o" >>), PStr(<< "o", "f", "f" >>) }

TextFlags == { "bold", "italic", "underline", "strikethrough" }

\* the textFormat of the repeatCell request of a batchUpdate call, the empty
\* dict when the cell format has none
TextFormatOf(call) ==
    IF "textFormat" \in DOMAIN call.requests[1].repeatCell.cell.userEnteredFormat
    THEN call.requests[1].repeatCell.cell.userEnteredFormat.textFormat
    ELSE EmptyDict

\* C13: in the request format_cells issues, each of bold, italic, underline
\* and strikethrough is a key of textFormat exactly when the argument is not
\* None; its value is true for each of True, 1, "true", "1", "yes", "on" and
\* false for each of False, 0, "false", "0", "no", "off".
C13_FlagsSetIffGiven ==
    \A i \in CallsOf({ "spreadsheets.batchUpdate" }) :
        InvTool = "format_cells" =>
            \A k \in TextFlags :
                /\ (k \in DOMAIN TextFormatOf(calls[i].call)) <=> (inv.args[k] # PNone)
                /\ inv.args[k] \in ListedTrue
                      => TextFormatOf(calls[i].call)[k] = TRUE
                /\ inv.args[k] \in ListedFalse
                      => TextFormatOf(calls[i].call)[k] = FALSE

\* format_cells has issued its request with bold "yes", and the other flags
\* None
C13_Witness ==
    /\ InvTool = "format_cells"
    /\ CallsOf({ "spreadsheets.batchUpdate" }) # {}
    /\ inv.args.bold = PStr(<< "y", "e", "s" >>)
    /\ inv.args.italic = PNone
    /\ DOMAIN TextFormatOf(calls[2].call) = { "bold" }


\* the tools that convert the cell range of their range argument to a
\* GridRange
GridRangeTools ==
    { "format_cells", "apply_table_style", "reset_to_default_formatting",
      "add_conditional_format_rule" }

\* the range arguments of the invocation
RangesGiven ==
    IF InvTool = "add_conditional_format_rule"
    THEN { inv.args.ranges[i] : i \in 1..Len(inv.args.ranges) }
    ELSE { inv.range }

\* C15: when the cell-range part of a range passed to format_cells,
\* apply_table_style, reset_to_default_formatting or
\* add_conditional_format_rule is not of the grammar of rectangles, the
\* invocation ends with an error and issues no batchUpdate and no
\* values.clear.
C15_UnparsableRangeIsError ==
    (/\ pc = "done"
     /\ InvTool \in GridRangeTools
     /\ \E r \in RangesGiven : ~InGrammar(parse_range(r)[2]))
    => /\ outcome.kind = "error"
       /\ CallsOf(MutatingApis) = {}


\* the parameter the rule type requires is None
RequiredOmitted(a) ==
    \/ a.rule_type = "custom_formula" /\ a.formula = PNone
    \/ /\ a.rule_type \in { "number_greater", "number_less" } \cup TextRules \cup DateRules
       /\ a.value = PNone
    \/ a.rule_type = "number_between" /\ (a.min_value = PNone \/ a.max_value = PNone)

-----------------------------------------------------------------------------
(* Range analysis in update_sheet_values: properties *)

\* C19: for every range string and every values input that
\* _validate_2d_array accepts, update_sheet_values issues exactly one remote
\* call, the values.update, with the caller's range string unchanged: the
\* range analysis and the dimension warning never block the write.
C19_AnalysisNeverBlocksWrite ==
    (/\ pc = "done"
     /\ InvTool = "update_sheet_values"
     /\ validate_2d_array(inv.values).ok)
    => /\ Len(calls) = 1
       /\ calls[1].call.api = "values.update"
       /\ calls[1].call.range = inv.range

\* an inverted range written with a single value: the dimension warning was
\* logged and the write went out
C19_Witness ==
    /\ pc = "done"
    /\ InvTool = "update_sheet_values"
    /\ inv.range = << "B", "2", ":", "A", "1" >>
    /\ inv.values = Scalar("a")
    /\ local.warned
    /\ Len(calls) = 1 /\ calls[1].ok
    /\ calls[1].call.range = inv.range


-----------------------------------------------------------------------------
(* reset_to_default_formatting applied twice: properties *)

\* C11: when reset_to_default_formatting has been applied to a range and is
\* applied once more with the same range, preserve_values and
\* clear_conditional_formatting, the remote document (cell formats,
\* conditional format rules, values) is the one the first application left,
\* whatever the initial document.
C11_ResetIsIdempotent ==
    (/\ pc = "done"
     /\ "once" \in DOMAIN inv
     /\ inv.first.kind = "result")
    => Remote = inv.once

\* both applications succeeded on the sheet with rules, formats and values,
\* with values cleared and rules deleted by the first one
C11_Witness ==
    /\ pc = "done"
    /\ "once" \in DOMAIN inv
    /\ inv.first.kind = "result" /\ outcome.kind = "result"
    /\ inv.clear_conditional_formatting /\ ~inv.preserve_values
    /\ Len(doc.sheets) > 0
    /\ "conditionalFormats" \in DOMAIN doc.sheets[1]
    /\ "conditionalFormats" \in DOMAIN inv.once.sheets[1]
    /\ Len(inv.once.sheets[1].conditionalFormats) = 1
    /\ inv.once # doc
    /\ Len(applied) = 4


-----------------------------------------------------------------------------
(* Field mask of format_cells: properties *)

\* the place of each formatting argument in the cell format: the top-level
\* attribute, and the attribute inside it when it is nested
AttributePath ==
    [background_color      |-> << "backgroundColor" >>,
     font_color            |-> << "textFormat", "foregroundColor" >>,
     font_size             |-> << "textFormat", "fontSize" >>,
     font_family           |-> << "textFormat", "fontFamily" >>,
     bold                  |-> << "textFormat", "bold" >>,
     italic                |-> << "textFormat", "italic" >>,
     underline             |-> << "textFormat", "underline" >>,
     strikethrough         |-> << "textFormat", "strikethrough" >>,
     horizontal_alignment  |-> << "horizontalAlignment" >>,
     vertical_alignment    |-> << "verticalAlignment" >>,
     text_wrap             |-> << "wrapStrategy" >>,
     number_format         |-> << "numberFormat", "type" >>,
     number_format_pattern |-> << "numberFormat", "pattern" >>]

\* the request's cell format holds a value at the path
Written(cell_format, path) ==
    /\ path[1] \in DOMAIN cell_format
    /\ Len(path) = 2 => path[2] \in DOMAIN cell_format[path[1]]

\* the field mask covers the path: it names the attribute or an attribute
\* the path lies in
Covered(fields, path) == \E i \in 1..Len(fields) : fields[i] = path[1]

\* C21: in the repeatCell request of format_cells, a formatting argument
\* left None is neither written in the cell format nor covered by the field
\* mask.
C21_UnsuppliedAttributeUntouched ==
    \A i \in CallsOf({ "spreadsheets.batchUpdate" }) :
        InvTool = "format_cells" =>
            \A a \in DOMAIN AttributePath :
                inv.args[a] = PNone =>
                    /\ ~Written(calls[i].call.requests[1].repeatCell.cell.userEnteredFormat,
                                AttributePath[a])
                    /\ ~Covered(calls[i].call.requests[1].repeatCell.fields,
                                AttributePath[a])


-----------------------------------------------------------------------------
(* Sheet resolution of a range without sheet name: properties *)

\* the sheetIds a request of a batchUpdate addresses
RequestSheetIds(req) ==
    CASE "repeatCell" \in DOMAIN req -> { req.repeatCell.range.sheetId }
      [] "addConditionalFormatRule" \in DOMAIN req ->
            { req.addConditionalFormatRule.rule.ranges[k].sheetId :
                k \in 1..Len(req.addConditionalFormatRule.rule.ranges) }
      [] "deleteConditionalFormatRule" \in DOMAIN req ->
            { req.deleteConditionalFormatRule.sheetId }
      [] "autoResizeDimensions" \in DOMAIN req ->
            { req.autoResizeDimensions.dimensions.sheetId }

\* the sheetIds a batchUpdate call addresses
CallSheetIds(call) ==
    UNION { RequestSheetIds(call.requests[k]) : k \in 1..Len(call.requests) }

\* C22: a range without sheet-name prefix given to format_cells,
\* add_conditional_format_rule, apply_table_style or
\* reset_to_default_formatting is resolved to the first sheet of the
\* spreadsheet, whatever its title: the sheet is found and every batchUpdate
\* of the invocation addresses the first sheet's sheetId only.
C22_NoPrefixIsFirstSheet ==
    (/\ pc = "done"
     /\ InvTool \in GridRangeTools
     /\ \A r \in RangesGiven : FindBang(r, 1) = 0
     /\ calls[1].ok
     /\ Len(doc.sheets) > 0)
    => /\ outcome # SheetNotFound
       /\ \A i \in CallsOf({ "spreadsheets.batchUpdate" }) :
             CallSheetIds(calls[i].call) = { doc.sheets[1].properties.sheetId }


-----------------------------------------------------------------------------
(* get_data_boundaries with include_empty_cells: properties *)

\* the grid rows of the sheet the invocation reads
TargetRows == doc.sheets[SheetByTitle(doc.sheets, local.sheet_title, 1)].data[1].rowData

\* the cells (row, column), 1-based, of the rows that carry the key, for
\* "effectiveFormat" with a non-empty format
CellsWith(rows, key) ==
    { rc \in (1..Len(rows)) \X (1..SetMax({ 0 } \cup { Len(RowCells(rows[r])) : r \in 1..Len(rows) })) :
        /\ rc[2] <= Len(RowCells(rows[rc[1]]))
        /\ key \in DOMAIN RowCells(rows[rc[1]])[rc[2]]
        /\ DOMAIN RowCells(rows[rc[1]])[rc[2]][key] # {} }

\* the cells of the rows with a value
ValuedCells(rows) ==
    { rc \in (1..Len(rows)) \X (1..SetMax({ 0 } \cup { Len(RowCells(rows[r])) : r \in 1..Len(rows) })) :
        /\ rc[2] <= Len(RowCells(rows[rc[1]]))
        /\ "formattedValue" \in DOMAIN RowCells(rows[rc[1]])[rc[2]] }

\* C23: get_data_boundaries with include_empty_cells true, on a grid with at
\* least one cell of non-empty effective format, reports boundaries whose
\* rectangle contains every cell with a value or a non-empty effective
\* format, also when no cell has a value.
C23_FormattedCellsAreIncluded ==
    (/\ pc = "done"
     /\ InvTool = "get_data_boundaries"
     /\ inv.include_empty_cells
     /\ Len(calls) = 2 /\ calls[2].ok
     /\ CellsWith(TargetRows, "effectiveFormat") # {})
    => /\ "data_range" \in DOMAIN outcome
       /\ \A rc \in CellsWith(TargetRows, "effectiveFormat") \cup ValuedCells(TargetRows) :
             InGridRange(convert_a1_to_grid_range(outcome.data_range, 0),
                         rc[1] - 1, rc[2] - 1)


-----------------------------------------------------------------------------
(* Cell description: properties *)

\* the label of the line of each format category
CategoryLabel ==
    [background |-> "Background", text_format |-> "Text",
     number_format |-> "Number Format", alignment |-> "Alignment",
     wrap |-> "Text Wrap", borders |-> "Borders"]

\* the category is requested: no filter (None or empty), or the filter
\* names it
Requested(properties, category) ==
    \/ properties = PNone
    \/ properties.v = << >>
    \/ \E i \in 1..Len(properties.v) : properties.v[i] = category

\* the effective format has active formatting in the category
Active(eff, category) ==
    CASE category = "background" ->
            "backgroundColor" \in DOMAIN eff /\ eff.backgroundColor # EmptyDict
      [] category = "text_format" ->
            /\ "textFormat" \in DOMAIN eff
            /\ \/ DOMAIN eff.textFormat
                     \cap { "foregroundColor", "fontSize", "fontFamily" } # {}
               \/ \E k \in DOMAIN eff.textFormat
                             \cap { "bold", "italic", "underline", "strikethrough" } :
                     eff.textFormat[k]
      [] category = "number_format" ->
            "numberFormat" \in DOMAIN eff /\ eff.numberFormat # EmptyDict
      [] category = "alignment" ->
            \E k \in DOMAIN eff \cap { "horizontalAlignment", "verticalAlignment" } :
                eff[k] # ""
      [] category = "wrap" ->
            "wrapStrategy" \in DOMAIN eff /\ eff.wrapStrategy # ""
      [] category = "borders" ->
            /\ "borders" \in DOMAIN eff
            /\ \E side \in DOMAIN eff.borders :
                  /\ "style" \in DOMAIN eff.borders[side]
                  /\ eff.borders[side].style # "NONE"

\* the effective format of the described cell
EffOf(cell) == IF "effectiveFormat" \in DOMAIN cell THEN cell.effectiveFormat ELSE EmptyDict

\* C24: _describe_cell_properties emits the line of a format category
\* exactly when the category is requested (it is in the filter, or there is
\* no filter) and the cell's effective format has active formatting in the
\* category; a category outside the filter, an absent category, and borders
\* whose sides are all of style NONE give no line.
C24_LinesOnlyForRequestedActive ==
    fn = "describe_cell_properties" =>
        \A category \in DOMAIN CategoryLabel :
            (\E i \in 1..Len(ret) : ret[i].label = CategoryLabel[category])
            <=> (Requested(arg.properties, category) /\ Active(EffOf(arg.cell), category))

\* the fully formatted cell described with the filter ["borders"]: the one
\* line names the top border, the side of style NONE is left out
C24_Witness ==
    /\ fn = "describe_cell_properties"
    /\ arg.properties = List(<< "borders" >>)
    /\ arg.cell = [effectiveFormat |-> FullFormat]
    /\ ret = << [label |-> "Borders",
                 parts |-> << [side |-> "top", style |-> "SOLID"] >>] >>


-----------------------------------------------------------------------------
(* Shape of the normalized values: properties *)

\* C25: every value _validate_2d_array returns without error is a non-empty
\* list of rows, every row a list and no cell of a row itself a list.
C25_ResultIsRowsOfCells ==
    (fn = "validate_2d_array" /\ ret.ok) =>
        /\ IsList(ret.value)
        /\ Len(ret.value.v) > 0
        /\ \A i \in 1..Len(ret.value.v) :
              /\ IsList(ret.value.v[i])
              /\ \A j \in 1..Len(ret.value.v[i].v) : ~IsList(ret.value.v[i].v[j])


-----------------------------------------------------------------------------
(* The single call of modify_sheet_values and batch_update_values: properties *)

\* C26: a finished modify_sheet_values with clear_values true has issued
\* exactly one remote call, values.clear, whatever values is; with
\* clear_values false and values None it has issued no call and ended with
\* an error; a successful one has issued exactly one call, values.update
\* when clear_values is false.
C26_ModifyIssuesOneCall ==
    (pc = "done" /\ InvTool = "modify_sheet_values") =>
        /\ inv.clear_values
              => Len(calls) = 1 /\ calls[1].call.api = "values.clear"
        /\ (~inv.clear_values /\ inv.values = None)
              => calls = << >> /\ outcome.kind = "error"
        /\ outcome.kind = "result"
              => /\ Len(calls) = 1
                 /\ ~inv.clear_values => calls[1].call.api = "values.update"

\* clear_values true together with a list of values: the one call is the
\* values.clear
C26_Witness ==
    /\ pc = "done"
    /\ InvTool = "modify_sheet_values"
    /\ inv.clear_values
    /\ inv.values = List(<< Scalar("a"), Scalar("b") >>)
    /\ outcome.kind = "result"
    /\ Len(calls) = 1 /\ calls[1].call.api = "values.clear"

\* an entry of the updates list that the validation loop rejects
EntryRejected(update) ==
    \/ "range" \notin DOMAIN update
    \/ "values" \notin DOMAIN update
    \/ ~validate_2d_array(update.values).ok

\* C27: a finished batch_update_values whose updates list holds an entry
\* without "range" or "values", or with values the normalizer rejects, has
\* issued no remote call and ended with an error, also when an earlier entry
\* was valid; otherwise it has issued exactly one call, values.batchUpdate,
\* whose data list has one item per entry, in the caller's order.
C27_BatchValidatesBeforeWriting ==
    (pc = "done" /\ InvTool = "batch_update_values") =>
        IF \E k \in 1..Len(inv.updates) : EntryRejected(inv.updates[k])
        THEN calls = << >> /\ outcome.kind = "error"
        ELSE /\ Len(calls) = 1
             /\ calls[1].call.api = "values.batchUpdate"
             /\ Len(calls[1].call.data) = Len(inv.updates)
             /\ \A k \in 1..Len(inv.updates) :
                   calls[1].call.data[k].range = inv.updates[k].range

\* a valid first entry followed by an entry with an empty list of values:
\* nothing was written
C27_Witness ==
    /\ pc = "done"
    /\ InvTool = "batch_update_values"
    /\ Len(inv.updates) = 2
    /\ ~EntryRejected(inv.updates[1])
    /\ "values" \in DOMAIN inv.updates[2]
    /\ inv.updates[2].values = List(<< >>)
    /\ calls = << >>
    /\ outcome.kind = "error"

-----------------------------------------------------------------------------
(* Deletion of conditional format rules by reset_to_default_formatting:
   properties *)

\* the conditional format rules of a sheet of the metadata
RulesOf(sheet) == Get(sheet, "conditionalFormats", << >>)

\* the rule has a range on the sheet
OnSheet(rule, sheet_id) ==
    \E k \in 1..Len(Get(rule, "ranges", << >>)) :
        /\ "sheetId" \in DOMAIN rule.ranges[k]
        /\ rule.ranges[k].sheetId = sheet_id

\* the rules that have no range on the sheet, in their order
RulesOffSheet(rules, sheet_id) ==
    LET Off(rule) == ~OnSheet(rule, sheet_id) IN SelectSeq(rules, Off)

\* the batchUpdate of a reset_to_default_formatting with
\* clear_conditional_formatting has been issued
ResetBatchIssued ==
    /\ InvTool = "reset_to_default_formatting"
    /\ inv.clear_conditional_formatting
    /\ Len(calls) >= 2
    /\ calls[2].call.api = "spreadsheets.batchUpdate"

\* C28: in the batchUpdate of reset_to_default_formatting with
\* clear_conditional_formatting, the deleteConditionalFormatRule requests
\* follow the repeatCell request and carry strictly decreasing indices;
\* applied in order to the fetched rule list, each request deletes the rule
\* that had its index at the fetch, the rules of the target sheet that have
\* a range on that sheet are all removed and no other, and the other sheets
\* keep their rules.
C28_DeletesRemoveTheFetchedRules ==
    ResetBatchIssued =>
        LET reqs    == calls[2].call.requests
            sid     == reqs[1].repeatCell.range.sheetId
            fetched == local.spreadsheet
            t       == SheetById(fetched.sheets, sid, 1)
            dels    == SubSeq(reqs, 2, Len(reqs))
            after   == ApplyRequests(fetched, dels)
        IN  /\ "repeatCell" \in DOMAIN reqs[1]
            /\ \A k \in 1..Len(dels) :
                  /\ "deleteConditionalFormatRule" \in DOMAIN dels[k]
                  /\ dels[k].deleteConditionalFormatRule.sheetId = sid
            /\ \A k \in 1..(Len(dels) - 1) :
                  dels[k].deleteConditionalFormatRule.index
                      > dels[k + 1].deleteConditionalFormatRule.index
            /\ \A k \in 1..Len(dels) :
                  LET before == ApplyRequests(fetched, SubSeq(dels, 1, k - 1))
                      idx    == dels[k].deleteConditionalFormatRule.index
                  IN  /\ before.ok
                      /\ idx < Len(RulesOf(before.doc.sheets[t]))
                      /\ RulesOf(before.doc.sheets[t])[idx + 1]
                            = RulesOf(fetched.sheets[t])[idx + 1]
            /\ after.ok
            /\ RulesOf(after.doc.sheets[t])
                  = RulesOffSheet(RulesOf(fetched.sheets[t]), sid)
            /\ \A j \in 1..Len(fetched.sheets) :
                  j # t => after.doc.sheets[j] = fetched.sheets[j]

\* the rules 0 and 2 of the first sheet were deleted, in the order 2, 0; the
\* rule 1, whose only range is on the other sheet, and the rule of the other
\* sheet stay
C28_Witness ==
    /\ ResetBatchIssued
    /\ pc = "done" /\ outcome.kind = "result"
    /\ Len(calls[2].call.requests) = 3
    /\ calls[2].call.requests[2].deleteConditionalFormatRule.index = 2
    /\ calls[2].call.requests[3].deleteConditionalFormatRule.index = 0
    /\ Len(local.spreadsheet.sheets) = 2
    /\ Len(RulesOf(local.spreadsheet.sheets[1])) = 3
    /\ Len(RulesOf(local.spreadsheet.sheets[2])) = 1

-----------------------------------------------------------------------------
(* reset_to_default_formatting next to a concurrent actor: properties *)

\* the position in the log of calls that took effect of the handler's
\* batchUpdate, of its values.clear
FormatAt ==
    CHOOSE i \in 1..Len(applied) :
        /\ applied[i].api = "spreadsheets.batchUpdate"
        /\ "repeatCell" \in DOMAIN applied[i].requests[1]
ClearAt == CHOOSE i \in 1..Len(applied) : applied[i].api = "values.clear"

\* the document the remote service held when the call at position i of the
\* log arrived
RemoteBefore(i) == ApplyAll(doc, SubSeq(applied, 1, i - 1))

\* the id of the sheet whose formats the batchUpdate reset, of the sheet
\* whose values the values.clear removed
FormattedSheet == applied[FormatAt].requests[1].repeatCell.range.sheetId
ClearedSheet ==
    LET d == RemoteBefore(ClearAt)
    IN  d.sheets[SheetByTitle(d.sheets, parse_range(applied[ClearAt].range)[1], 1)]
            .properties.sheetId

\* C29: when reset_to_default_formatting with preserve_values false has
\* succeeded, the sheet whose formats its batchUpdate reset is the sheet
\* whose values its values.clear removed, whatever a concurrent actor
\* renamed, deleted or created between the handler's remote calls.
C29_ResetAndClearHitOneSheet ==
    (/\ pc = "done"
     /\ InvTool = "reset_to_default_formatting"
     /\ ~inv.preserve_values
     /\ outcome.kind = "result")
    => FormattedSheet = ClearedSheet

-----------------------------------------------------------------------------
(* Row requests of apply_table_style: properties *)

\* the batchUpdate of apply_table_style has been issued
TableBatchIssued ==
    /\ InvTool = "apply_table_style"
    /\ Len(calls) >= 2
    /\ calls[2].call.api = "spreadsheets.batchUpdate"

\* the positions of the repeatCell requests in the batch
RepeatCells(reqs) == { k \in 1..Len(reqs) : "repeatCell" \in DOMAIN reqs[k] }

\* C30: for a range of the A1 grammar whose start is not after its end on
\* either axis, the repeatCell requests of apply_table_style (the header
\* row when has_header, and the data rows) have ranges one row high, with
\* the columns of the requested range, on pairwise different rows, and
\* their rows are exactly the rows of the requested range.
C30_RowRequestsPartitionTheRange ==
    TableBatchIssued =>
        LET reqs == calls[2].call.requests
            m    == MatchA1(local.cell_range)
            gr   == convert_a1_to_grid_range(local.cell_range, 0)
            K    == RepeatCells(reqs)
        IN  (/\ m.matched
             /\ gr.startRowIndex < gr.endRowIndex
             /\ gr.startColumnIndex < gr.endColumnIndex)
            => /\ \A k \in K :
                     LET r == reqs[k].repeatCell.range
                     IN  /\ r.endRowIndex = r.startRowIndex + 1
                         /\ r.startColumnIndex = gr.startColumnIndex
                         /\ r.endColumnIndex = gr.endColumnIndex
               /\ \A j, k \in K :
                     j # k => reqs[j].repeatCell.range.startRowIndex
                                # reqs[k].repeatCell.range.startRowIndex
               /\ { reqs[k].repeatCell.range.startRowIndex : k \in K }
                     = gr.startRowIndex .. (gr.endRowIndex - 1)
               /\ inv.has_header
                     => /\ "is_header" \in DOMAIN reqs[1].repeatCell
                        /\ reqs[1].repeatCell.range.startRowIndex = gr.startRowIndex

\* B2:C4 with a header: the header on row 1, data rows 2 and 3, columns 1
\* to 2
C30_Witness ==
    /\ TableBatchIssued
    /\ pc = "done" /\ outcome.kind = "result"
    /\ inv.has_header
    /\ local.cell_range = << "B", "2", ":", "C", "4" >>
    /\ Cardinality(RepeatCells(calls[2].call.requests)) = 3
    /\ calls[2].call.requests[3].repeatCell.range
          = [sheetId |-> calls[2].call.requests[3].repeatCell.range.sheetId,
             startRowIndex |-> 3, endRowIndex |-> 4,
             startColumnIndex |-> 1, endColumnIndex |-> 3]

=============================================================================
